---- MODULE Spec2Model ----
(***************************************************************************)
(* The execution engine of warthog: a Thread driving an ExecutionStack of  *)
(* frames (src/interp/thread.rs, src/interp/stack.rs), invoking Local and  *)
(* External functions (src/hosting/external.rs).  Every operation of the   *)
(* Thread runs to completion, so each is one action; its body is the       *)
(* recursive operator that follows the Rust code statement by statement.   *)
(* The Host, the registry of module, function and memory instances         *)
(* (src/runtime/host.rs), is modelled the same way: synthesize and         *)
(* instantiate are one action each, under the specification HostSpec.      *)
(* The Reader of the binary format (src/reader/mod.rs) reads a stream of   *)
(* bytes under ReaderSpec, and the coercion of a Value to a native type    *)
(* (src/value/mod.rs) is applied to every value under ValueSpec.           *)
(***************************************************************************)
EXTENDS Integers, Sequences, FiniteSets, TLC

VARIABLES
    stack,      \* Thread.stack: the ExecutionStack, a sequence of ExecutionContext, oldest first
    last,       \* the operation that ran last: its inputs, the stack before it, what it returned
    panicked,   \* TRUE once an operation has panicked
    theHost,    \* the Host: its arenas modules, funcs and mems
    outcome,    \* the call of the Host that ran last: its input, the Host before it, what it returned
    source,     \* Reader.source: the bytes of the stream that are not read yet
    got,        \* the call of the Reader that ran last: the stream before it, what it returned
    coerced     \* the from_value call that ran last: its input and what it returned

vars == <<stack, last, panicked>>
hostVars == <<theHost, outcome>>
readerVars == <<source, got>>
valueVars == <<coerced>>
allVars == <<stack, last, panicked, theHost, outcome, source, got, coerced>>

\* ------------------------------------------------------------------ bounds

\* Frames an operation may find on the stack when it starts.
MaxDepth == 1

\* Operand values on the frames of the stack when the owner of the Thread pushes one more.
MaxValues == 2

\* Module instances the Host holds when one more is synthesized or instantiated.
MaxModules == 3

\* Function or memory instances the Host holds when one more call is made.
MaxInstances == 6

\* Sections of a stream given to the Reader.
MaxSections == 2

\* The largest payload of a Value given to from_value.
MaxPayload == 4

\* ------------------------------------------------------------------ values

\* Option<T>
None == <<>>
Some(x) == <<x>>

\* enum Value { Nil, I32, I64, F32, F64 }
Nil == [typ |-> "nil", val |-> 0]
I32(n) == [typ |-> "i32", val |-> n]
I64(n) == [typ |-> "i64", val |-> n]
F32(n) == [typ |-> "f32", val |-> n]
F64(n) == [typ |-> "f64", val |-> n]

\* Value::typ
Typ(v) == v.typ

\* The zero value of a declared local (thread.rs: "Initialize locals").
ZeroValue(t) == [typ |-> t, val |-> 0]

\* ------------------------------------------------------------------ instructions

Const(v) == [op |-> "const", val |-> v, func |-> 0]
Call(f) == [op |-> "call", val |-> Nil, func |-> f]
Unreachable == [op |-> "unreachable", val |-> Nil, func |-> 0]

\* ------------------------------------------------------------------ stack.rs

\* StackFrame::new
StackFrame(module, func) == [module |-> module, func |-> func]

\* ExecutionContext::new: the operand stack starts empty
ExecutionContext(frame, locals) == [values |-> <<>>, locals |-> locals, frame |-> frame]

\* ExecutionContext::push without the test for Nil
Context_push_Unchecked(ctx, value) ==
    [ctx EXCEPT !.values = Append(@, value)]

\* ExecutionContext::push: a Nil is dropped, not pushed
Context_push(ctx, value) ==
    IF value # Nil THEN [ctx EXCEPT !.values = Append(@, value)] ELSE ctx

\* ExecutionContext::pop: Vec::pop, the most recently pushed value or None
Context_pop(ctx) ==
    IF ctx.values = <<>>
    THEN [val |-> None, ctx |-> ctx]
    ELSE [val |-> Some(ctx.values[Len(ctx.values)]),
          ctx |-> [ctx EXCEPT !.values = SubSeq(@, 1, Len(@) - 1)]]

\* ExecutionContext::is_empty
Context_is_empty(ctx) == ctx.values = <<>>

\* ExecutionStack::new
Stack_new == <<>>

\* ExecutionStack::enter
Stack_enter(s, module, func, locals) ==
    Append(s, ExecutionContext(StackFrame(module, func), locals))

\* ExecutionStack::exit had it popped the last frame too.
Stack_exit_Unguarded(s) ==
    IF Len(s) = 0 THEN [panic |-> FALSE, stack |-> s]
    ELSE [panic |-> FALSE, stack |-> SubSeq(s, 1, Len(s) - 1)]

\* ExecutionStack::exit: panics when exactly one frame is left; Vec::pop otherwise
\* (which removes nothing from an empty Vec).
Stack_exit(s) ==
    IF Len(s) = 1 THEN [panic |-> TRUE, stack |-> s]
    ELSE IF Len(s) = 0 THEN [panic |-> FALSE, stack |-> s]
    ELSE [panic |-> FALSE, stack |-> SubSeq(s, 1, Len(s) - 1)]

\* ExecutionStack::trace had it not reversed the iteration: the oldest frame first.
Stack_trace_OldestFirst(s) == [i \in 1..Len(s) |-> s[i].frame]

\* ExecutionStack::trace: self.0.iter().rev() over the frames
Stack_trace(s) == [i \in 1..Len(s) |-> s[Len(s) - i + 1].frame]

\* ------------------------------------------------------------------ traps and results

Message(kind) == [kind |-> kind, expected |-> "nil", actual |-> "nil"]
StackUnderflow == Message("Stack underflow!")
StackNotEmpty == Message("Stack is not empty at end of function invocation!")
TypeMismatch(expected, actual) ==
    [kind |-> "Type mismatch", expected |-> expected, actual |-> actual]

NoTrap == [message |-> Message("none"), trace |-> <<>>]

\* Thread::throw: Trap::new(message, Some(self.stack.trace()))
Thread_throw(s, message) == [message |-> message, trace |-> Stack_trace(s)]

\* What an operation of the Thread hands back: the stack it leaves, the host
\* callables and frames it went through (log), and Ok(vals), Err(trap) or a panic.
ROk(s, log, vals) ==
    [kind |-> "ok", stack |-> s, log |-> log, vals |-> vals, trap |-> NoTrap]
RTrap(s, log, trap) ==
    [kind |-> "trap", stack |-> s, log |-> log, vals |-> <<>>, trap |-> trap]
RPanic(s, log) ==
    [kind |-> "panic", stack |-> s, log |-> log, vals |-> <<>>, trap |-> NoTrap]

NoFunc == 0 - 1
Event(ev, func, vals) == [ev |-> ev, func |-> func, vals |-> vals]

\* ExecutionStack::current / current_mut: the last frame (callers check Len(s) > 0,
\* the unwrap panics otherwise)
Stack_current(s) == s[Len(s)]

\* Thread::pop
Thread_pop(s, log) ==
    IF s = <<>> THEN RPanic(s, log)
    ELSE LET p == Context_pop(Stack_current(s))
             s1 == [s EXCEPT ![Len(s)] = p.ctx]
         IN  IF p.val = None
             THEN RTrap(s1, log, Thread_throw(s1, StackUnderflow))
             ELSE ROk(s1, log, p.val)

\* Thread::push
Thread_push(s, log, v) ==
    IF s = <<>> THEN RPanic(s, log)
    ELSE ROk([s EXCEPT ![Len(s)] = Context_push(@, v)], log, <<>>)

\* ------------------------------------------------------------------ the Host's functions

\* FuncInst::local / FuncInst::synthetic as the Thread reads them: typ(), module(),
\* imp() with the code's locals() and body(), or the host callable.
LocalFunc(params, results, locals, body) ==
    [imp |-> "local", typ |-> [params |-> params, results |-> results], module |-> 1,
     locals |-> locals, body |-> body, host |-> "none", ret |-> <<>>]
ExternalFunc(params, results, host, ret) ==
    [imp |-> "external", typ |-> [params |-> params, results |-> results], module |-> 0,
     locals |-> <<>>, body |-> <<>>, host |-> host, ret |-> ret]

\* Functions at fixed addresses, the ones a call instruction of a body names:
\*  0 a host callable (i32, f32) -> i32 returning 7      1 a host callable that traps
\*  2 a function whose body traps                        3 a function that leaves its result out
\*  4 () -> i32 with body [const 42]
FixedFuncs ==
    << ExternalFunc(<<"i32", "f32">>, <<"i32">>, "ret", <<I32(7)>>),
       ExternalFunc(<<>>, <<>>, "trap", <<>>),
       LocalFunc(<<>>, <<>>, <<>>, <<Unreachable>>),
       LocalFunc(<<>>, <<"i32">>, <<>>, <<>>),
       LocalFunc(<<>>, <<"i32">>, <<>>, <<Const(I32(42))>>) >>

\* Functions that differ in what they bind: declared parameters and declared locals.
BindParams == << <<"i32">>, <<"i32", "f32">>, <<"i32", "i32">> >>
BindLocals == << <<>>, <<"i64", "f32">> >>
BindFuncs ==
    [i \in 1..(Len(BindParams) * Len(BindLocals)) |->
        LocalFunc(BindParams[((i - 1) \div Len(BindLocals)) + 1], <<>>,
                  BindLocals[((i - 1) % Len(BindLocals)) + 1], <<>>)]

\* Functions that differ in what they return: declared results and what the body leaves.
ResultTypes == << <<>>, <<"i32">>, <<"i32", "f32">> >>
Bodies ==
    << <<>>,
       <<Const(I32(1))>>,
       <<Const(F32(2)), Const(I32(1))>>,
       <<Const(I32(1)), Const(F32(2))>>,
       <<Const(Nil)>>,
       <<Call(2)>>,
       <<Call(3)>>,
       <<Const(I32(1)), Const(F32(2)), Call(0)>> >>
ResultFuncs ==
    [i \in 1..(Len(ResultTypes) * Len(Bodies)) |->
        LocalFunc(<<>>, ResultTypes[((i - 1) \div Len(Bodies)) + 1], <<>>,
                  Bodies[((i - 1) % Len(Bodies)) + 1])]

\* One function with parameters, locals, a body and a result.
MixedFuncs ==
    << LocalFunc(<<"f32", "i32">>, <<"i32">>, <<"f64">>, <<Const(I32(2))>>) >>

\* Host.funcs, the function arena; a FuncAddr a names FuncTable[a + 1].
FuncTable == FixedFuncs \o BindFuncs \o ResultFuncs \o MixedFuncs
FuncAddrs == 0..(Len(FuncTable) - 1)

\* Host::get_func
Host_get_func(addr) == FuncTable[addr + 1]

\* The host-supplied callable of an External function: (host, thread, args) -> Result.
HostCallable(fi, s, log, args) ==
    IF fi.host = "trap"
    THEN RTrap(s, log, Thread_throw(s, Message("host")))
    ELSE ROk(s, log, fi.ret)

\* ------------------------------------------------------------------ thread.rs: invoke

\* The parameter loop had it not compared val.typ() with the declared parameter.
RECURSIVE PopParams_Unchecked(_, _, _, _, _)
PopParams_Unchecked(s, log, params, i, locals) ==
    IF i > Len(params) THEN ROk(s, log, locals)
    ELSE IF s = <<>> THEN RPanic(s, log)
    ELSE LET p == Context_pop(Stack_current(s))
             s1 == [s EXCEPT ![Len(s)] = p.ctx]
         IN  IF p.val = None
             THEN RTrap(s1, log, Thread_throw(s1, StackUnderflow))
             ELSE PopParams_Unchecked(s1, log, params, i + 1, Append(locals, p.val[1]))

\* thread.rs 94-107: one pop of the current frame per declared parameter, each
\* checked against the parameter it is bound to; `locals` collects them in pop order.
RECURSIVE PopParams(_, _, _, _, _)
PopParams(s, log, params, i, locals) ==
    IF i > Len(params) THEN ROk(s, log, locals)
    ELSE IF s = <<>> THEN RPanic(s, log)
    ELSE LET p == Context_pop(Stack_current(s))
             s1 == [s EXCEPT ![Len(s)] = p.ctx]
         IN  IF p.val = None
             THEN RTrap(s1, log, Thread_throw(s1, StackUnderflow))
             ELSE IF Typ(p.val[1]) # params[i]
             THEN RTrap(s1, log, Thread_throw(s1, TypeMismatch(params[i], Typ(p.val[1]))))
             ELSE PopParams(s1, log, params, i + 1, Append(locals, p.val[1]))

\* thread.rs 110-119: one zero value per declared local, appended after the
\* parameters; a local declared Nil is unreachable!()
InitLocals(s, log, locals, declared) ==
    IF \E i \in 1..Len(declared) : declared[i] = "nil" THEN RPanic(s, log)
    ELSE ROk(s, log, locals \o [i \in 1..Len(declared) |-> ZeroValue(declared[i])])

\* thread.rs 131-144: one pop of the callee's frame per declared result; a failed
\* pop or check returns the trap at once.
RECURSIVE PopResults(_, _, _, _, _)
PopResults(s, log, results, i, vals) ==
    IF i > Len(results) THEN ROk(s, log, vals)
    ELSE LET p == Context_pop(Stack_current(s))
             s1 == [s EXCEPT ![Len(s)] = p.ctx]
         IN  IF p.val = None
             THEN RTrap(s1, log, Thread_throw(s1, StackUnderflow))
             ELSE IF Typ(p.val[1]) # results[i]
             THEN RTrap(s1, log, Thread_throw(s1, TypeMismatch(results[i], Typ(p.val[1]))))
             ELSE PopResults(s1, log, results, i + 1, Append(vals, p.val[1]))

\* thread.rs 146-156: the callee's frame must be empty now; the frame is exited
\* and the result returned.
FinishInvoke(s, log, vals) ==
    LET trap == Thread_throw(s, StackNotEmpty)
        notEmpty == ~Context_is_empty(Stack_current(s))
        x == Stack_exit(s)
    IN  IF x.panic THEN RPanic(x.stack, log)
        ELSE IF notEmpty THEN RTrap(x.stack, log, trap)
        ELSE ROk(x.stack, log, vals)

\* external.rs 46-61: thread.pop()? per declared parameter, each checked
RECURSIVE PopArgs(_, _, _, _, _)
PopArgs(s, log, params, i, vals) ==
    IF i > Len(params) THEN ROk(s, log, vals)
    ELSE LET p == Thread_pop(s, log)
         IN  IF p.kind # "ok" THEN p
             ELSE IF Typ(p.vals[1]) # params[i]
             THEN RTrap(p.stack, log,
                        Thread_throw(p.stack, TypeMismatch(params[i], Typ(p.vals[1]))))
             ELSE PopArgs(p.stack, log, params, i + 1, Append(vals, p.vals[1]))

\* ExternalFunc::invoke had it collected the popped values in push order.
ExternalFunc_invoke_PushOrder(s, log, func) ==
    LET fi == Host_get_func(func)
        a == PopArgs(s, log, fi.typ.params, 1, <<>>)
        args == [i \in 1..Len(a.vals) |-> a.vals[Len(a.vals) - i + 1]]
    IN  IF a.kind # "ok" THEN a
        ELSE HostCallable(fi, a.stack, Append(a.log, Event("host", func, args)), args)

\* ExternalFunc::invoke
ExternalFunc_invoke(s, log, func) ==
    LET fi == Host_get_func(func)
        a == PopArgs(s, log, fi.typ.params, 1, <<>>)
    IN  IF a.kind # "ok" THEN a
        ELSE HostCallable(fi, a.stack, Append(a.log, Event("host", func, a.vals)), a.vals)

RECURSIVE Thread_invoke(_, _, _), Thread_run(_, _, _, _), Execute(_, _, _)

\* The call instruction once the invoke has returned r: an error is handed on,
\* the returned values are pushed on the current frame.
PushReturned(r) ==
    IF r.kind # "ok" THEN r
    ELSE IF r.stack = <<>> THEN RPanic(r.stack, r.log)
    ELSE ROk([r.stack EXCEPT ![Len(r.stack)] =
                 [@ EXCEPT !.values = @ \o SelectSeq(r.vals, LAMBDA v : v # Nil)]],
             r.log, <<>>)

\* exec::execute, the instruction dispatch: a const pushes its value, a call
\* invokes the function and pushes what it returns, unreachable traps.
Execute(s, log, inst) ==
    IF inst.op = "const" THEN Thread_push(s, log, inst.val)
    ELSE IF inst.op = "call" THEN PushReturned(Thread_invoke(s, log, inst.func))
    ELSE RTrap(s, log, Thread_throw(s, Message("unreachable")))

\* thread.rs 163: self.execute(host, inst.clone())? with r what instruction i
\* returned: an error ends the run, otherwise the run goes on with instruction i + 1
RunRest(r, code, i) ==
    IF r.kind # "ok" THEN r ELSE Thread_run(r.stack, r.log, code, i + 1)

\* Thread::run from instruction i on: stops at the first instruction that fails
Thread_run(s, log, code, i) ==
    IF i > Len(code) THEN ROk(s, log, <<>>)
    ELSE RunRest(Execute(s, log, code[i]), code, i)

\* Err(e) => { self.stack.exit(); return Err(e); } with r what the run returned
\* (thread.rs 123-126 in invoke, 42-45 in eval)
ExitOnError(r) ==
    LET x == Stack_exit(r.stack)
    IN  IF x.panic THEN RPanic(x.stack, r.log) ELSE RTrap(x.stack, r.log, r.trap)

\* thread.rs 123-126 with r what the run of the body returned: a failing body
\* exits the frame and returns the error.
BodyReturned(r, func) ==
    IF r.kind = "panic" THEN r
    ELSE IF r.kind = "trap" THEN ExitOnError(r)
    ELSE ROk(r.stack, Append(r.log, Event("ran", func, Stack_current(r.stack).values)), <<>>)

\* thread.rs 121-126: enter the callee's frame and run the body
RunBody(s, log, func, locals) ==
    BodyReturned(Thread_run(Stack_enter(s, Host_get_func(func).module, Some(func), locals),
                            Append(log, Event("enter", func, locals)),
                            Host_get_func(func).body, 1),
                 func)

\* thread.rs 146-156 with p what the result loop returned
ResultsPopped(p) ==
    IF p.kind # "ok" THEN p ELSE FinishInvoke(p.stack, p.log, p.vals)

\* thread.rs 128-144 with r what the body returned
BodyRun(r, fi) ==
    IF r.kind # "ok" THEN r
    ELSE ResultsPopped(PopResults(r.stack, r.log, fi.typ.results, 1, <<>>))

\* thread.rs 121-126 with l the locals of the callee
LocalsReady(l, func, fi) ==
    IF l.kind # "ok" THEN l
    ELSE BodyRun(RunBody(l.stack, l.log, func, l.vals), fi)

\* thread.rs 109-119 with b what the parameter loop returned
ParamsBound(b, func, fi) ==
    IF b.kind # "ok" THEN b
    ELSE LocalsReady(InitLocals(b.stack, b.log, b.vals, fi.locals), func, fi)

\* Thread::invoke
Thread_invoke(s, log, func) ==
    IF Host_get_func(func).imp = "external" THEN ExternalFunc_invoke(s, log, func)
    ELSE ParamsBound(PopParams(s, log, Host_get_func(func).typ.params, 1, <<>>),
                     func, Host_get_func(func))

\* ------------------------------------------------------------------ thread.rs: eval, call

\* thread.rs 48-55 with p the value eval popped and ran the log of the run
EvalPopped(p, ran) ==
    IF p.kind # "ok" THEN p
    ELSE LET trap == Thread_throw(p.stack, StackNotEmpty)
             notEmpty == ~Context_is_empty(Stack_current(p.stack))
             x == Stack_exit(p.stack)
         IN  IF x.panic THEN RPanic(x.stack, ran)
             ELSE IF notEmpty THEN RTrap(x.stack, ran, trap)
             ELSE ROk(x.stack, ran, p.vals)

\* thread.rs 41: Ok(()) => self.pop()?
EvalPop(s, ran) == EvalPopped(Thread_pop(s, ran), ran)

\* thread.rs 40-46 with r what the run of the expression returned
EvalRun(r) ==
    IF r.kind = "panic" THEN r
    ELSE IF r.kind = "trap" THEN ExitOnError(r)
    ELSE EvalPop(r.stack, Append(r.log, Event("ran", NoFunc, Stack_current(r.stack).values)))

\* Thread::eval
Thread_eval(s, log, module, expr) ==
    EvalRun(Thread_run(Stack_enter(s, module, None, <<>>), log, expr, 1))

RECURSIVE EvalArgs_Forward(_, _, _, _)

\* thread.rs 74 with r what the run of a mirrored expression returned
ArgRun_Forward(r, exprs, i) ==
    IF r.kind # "ok" THEN r ELSE EvalArgs_Forward(r.stack, r.log, exprs, i - 1)

\* The argument loop had it iterated exprs.iter() without rev(): the step that
\* evaluates expression i of the reversed order evaluates its mirror instead.
EvalArgs_Forward(s, log, exprs, i) ==
    IF i < 1 THEN ROk(s, log, <<>>)
    ELSE ArgRun_Forward(Thread_run(s, log, exprs[Len(exprs) - i + 1], 1), exprs, i)

RECURSIVE EvalArgs(_, _, _, _)

\* thread.rs 74: self.run(host, expr.instructions())? with r what the run of
\* expression i returned
ArgRun(r, exprs, i) ==
    IF r.kind # "ok" THEN r ELSE EvalArgs(r.stack, r.log, exprs, i - 1)

\* thread.rs 72-75: for expr in exprs.iter().rev() { self.run(host, expr.instructions())?; }
\* from expression i down to the first
EvalArgs(s, log, exprs, i) ==
    IF i < 1 THEN ROk(s, log, <<>>)
    ELSE ArgRun(Thread_run(s, log, exprs[i], 1), exprs, i)

\* thread.rs 79-81 with res what the invoke returned: exit the intermediate frame
ExitWith(res) ==
    IF res.kind = "panic" THEN res
    ELSE LET x == Stack_exit(res.stack)
         IN  IF x.panic THEN RPanic(x.stack, res.log)
             ELSE [res EXCEPT !.stack = x.stack]

\* thread.rs 77-81: invoke, then exit the intermediate frame
InvokeAndExit(s, log, func) == ExitWith(Thread_invoke(s, log, func))

\* thread.rs 72-81 with a what the argument loop returned
ArgsEvaluated(a, func) ==
    IF a.kind # "ok" THEN a
    ELSE InvokeAndExit(a.stack,
                       Append(a.log, Event("args", func, Stack_current(a.stack).values)),
                       func)

\* Thread::call
Thread_call(s, log, module, func, exprs) ==
    ArgsEvaluated(EvalArgs(Stack_enter(s, module, None, <<>>), log, exprs, Len(exprs)), func)

\* ------------------------------------------------------------------ inputs

\* The module an eval or a call runs in (the functions live in modules 0 and 1).
Modules == {2}

\* Values the owner of the Thread pushes.
PushVals == {I32(1), F32(2), Nil}

\* Expressions given to eval.
Exprs == {Bodies[i] : i \in 1..Len(Bodies)} \cup {<<Unreachable>>}

\* Argument expressions given to call, in declaration order.
ArgLists ==
    { <<>>,
      << <<Const(I32(1))>> >>,
      << <<Const(F32(2))>> >>,
      << <<Unreachable>> >>,
      << <<Const(I32(1))>>, <<Const(I32(2))>> >>,
      << <<Const(I32(1))>>, <<Const(F32(2))>> >>,
      << <<Const(F32(2))>>, <<Const(I32(1))>> >>,
      << <<Const(I32(1))>>, <<Unreachable>> >>,
      << <<Const(I32(1))>>, <<Const(F32(2))>>, <<Const(I32(2))>> >> }

\* Functions given to call: the host callables, the function that leaves its result
\* out, the functions with two parameters and the mixed one.
CallFuncs ==
    {a \in FuncAddrs : \/ Host_get_func(a).imp = "external"
                       \/ a = 3
                       \/ Len(Host_get_func(a).typ.params) = 2}

\* ------------------------------------------------------------------ host.rs: the Host

\* Host { modules, funcs, mems }: the three arenas, a handle a names entry a + 1
HostState(m, f, x) == [modules |-> m, funcs |-> f, mems |-> x]

\* Host::new
Host_new == HostState(<<>>, <<>>, <<>>)

\* Error::ModuleNotFound, Error::ExportNotFound, Error::InvalidModule
NoError == [kind |-> "none", module |-> "", name |-> ""]
ModuleNotFound(module) == [kind |-> "ModuleNotFound", module |-> module, name |-> ""]
ExportNotFound(module, name) == [kind |-> "ExportNotFound", module |-> module, name |-> name]
InvalidModule == [kind |-> "InvalidModule", module |-> "", name |-> ""]

\* ExternVal::Func(addr), ExternVal::Mem(addr); ExportInst::func, ExportInst::mem
ExternVal_Func(addr) == [kind |-> "func", addr |-> addr]
ExternVal_Mem(addr) == [kind |-> "mem", addr |-> addr]
ExportInst_func(name, addr) == [name |-> name, value |-> ExternVal_Func(addr)]
ExportInst_mem(name, addr) == [name |-> name, value |-> ExternVal_Mem(addr)]

\* MemberDesc: what an export declares; the kinds other than Function and Memory
\* carry nothing the Host reads
MemberDesc_Function(idx) == [kind |-> "Function", idx |-> idx, min |-> 0]
MemberDesc_Memory(min) == [kind |-> "Memory", idx |-> 0, min |-> min]
MemberDesc_Table == [kind |-> "Table", idx |-> 0, min |-> 0]
Export(name, description) == [name |-> name, description |-> description]

\* Import { module, name }, Data { index, expr, init }
Import(module, name) == [module |-> module, name |-> name]
Data(index, expr, init) == [index |-> index, expr |-> expr, init |-> init]

\* ModuleInst::new(name, funcs, mems, exports)
ModuleInst(name, funcs, mems, exports) ==
    [name |-> name, funcs |-> funcs, mems |-> mems, exports |-> exports]

\* ModuleInst::find_export: the first export of that name
ModuleInst_find_export(inst, name) ==
    LET S == {i \in 1..Len(inst.exports) : inst.exports[i].name = name}
    IN  IF S = {} THEN None
        ELSE Some(inst.exports[CHOOSE i \in S : \A j \in S : i <= j])

\* MemInst::from_type: a memory of the declared minimum length, all zero
MemInst_from_type(min) == [i \in 1..min |-> 0]

\* FuncInst::local(typ, instance_addr, body), FuncInst::synthetic(func)
FuncInst_local(typ, module, body) ==
    [imp |-> "local", typ |-> typ, module |-> Some(module), body |-> body]
FuncInst_synthetic(func) ==
    [imp |-> "external", typ |-> func.typ, module |-> None, body |-> func.name]

\* What a call of the Host does on the way: the arena entries it pushes (the
\* handle it issued and the arena's length at the push) and the data segments
\* it handles (the memory before and after; "data" for a segment that is copied,
\* "rejected" for one the bounds check turns down, "malformed" for one whose
\* offset is not one constant, with all memories before and after).
HostEvent(ev, addr, at, seg, before, after) ==
    [ev |-> ev, addr |-> addr, at |-> at, seg |-> seg, before |-> before, after |-> after]

\* The locals of synthesize and instantiate: the Host as it is now, the funcs
\* and mems tables of the new instance, the exports computed, and how the call
\* stands (kind: "ok", "err" with the error, or "panic").
Link(h) ==
    [kind |-> "ok", host |-> h, log |-> <<>>, funcs |-> <<>>, mems |-> <<>>,
     exports |-> <<>>, error |-> NoError, addr |-> 0]
Fail(l, error) == [l EXCEPT !.kind = "err", !.error = error]
Panic(l) == [l EXCEPT !.kind = "panic"]

\* Host::get_module
Host_get_module(h, addr) == h.modules[addr + 1]

\* find_module had it searched from the module registered last.
Host_find_module_Last(h, name) ==
    LET S == {i \in 1..Len(h.modules) : h.modules[i].name = name}
    IN  IF S = {} THEN None ELSE Some((CHOOSE i \in S : \A j \in S : j <= i) - 1)

\* Host::find_module: the position of the first module instance of that name
Host_find_module(h, name) ==
    LET S == {i \in 1..Len(h.modules) : h.modules[i].name = name}
    IN  IF S = {} THEN None ELSE Some((CHOOSE i \in S : \A j \in S : i <= j) - 1)

\* Host::resolve_import
Host_resolve_import(h, module, name) ==
    LET found == ModuleInst_find_export(Host_get_module(h, module), name)
    IN  IF found # None
        THEN [kind |-> "ok", export |-> found[1], error |-> NoError]
        ELSE [kind |-> "err", export |-> ExportInst_func("", 0),
              error |-> ExportNotFound(Host_get_module(h, module).name, name)]

\* The import loop had it put each resolved handle in front of the earlier ones.
PushImport_Front(l, value) ==
    IF value.kind = "func" THEN [l EXCEPT !.funcs = <<value.addr>> \o @]
    ELSE [l EXCEPT !.mems = <<value.addr>> \o @]

\* host.rs 162-165: the handle of the export goes to the funcs or the mems of
\* the new instance
PushImport(l, value) ==
    IF value.kind = "func" THEN [l EXCEPT !.funcs = Append(@, value.addr)]
    ELSE [l EXCEPT !.mems = Append(@, value.addr)]

RECURSIVE ResolveImports(_, _, _)

\* host.rs 161-165 with r what resolve_import returned
ImportResolved(l, imports, i, r) ==
    IF r.kind = "err" THEN Fail(l, r.error)
    ELSE ResolveImports(PushImport(l, r.export.value), imports, i + 1)

\* host.rs 160-170 with found what find_module returned
ModuleFound(l, imports, i, found) ==
    IF found = None THEN Fail(l, ModuleNotFound(imports[i].module))
    ELSE ImportResolved(l, imports, i,
                        Host_resolve_import(l.host, found[1], imports[i].name))

\* Host::resolve_imports from import i on
ResolveImports(l, imports, i) ==
    IF i > Len(imports) THEN l
    ELSE ModuleFound(l, imports, i, Host_find_module(l.host, imports[i].module))

\* The function arena had self.funcs.push come before the handle is taken from
\* its length.
PushFunc_AfterPush(l, inst) ==
    [l EXCEPT !.host.funcs = Append(@, inst),
              !.funcs = Append(@, Len(l.host.funcs) + 1),
              !.log = Append(@, HostEvent("func", Len(l.host.funcs) + 1,
                                          Len(l.host.funcs), <<>>, <<>>, <<>>))]

\* host.rs 141-149 (and 74-77): FuncAddr::new(self.funcs.len()), funcs.push(func_addr),
\* self.funcs.push(inst)
PushFunc(l, inst) ==
    [l EXCEPT !.host.funcs = Append(@, inst),
              !.funcs = Append(@, Len(l.host.funcs)),
              !.log = Append(@, HostEvent("func", Len(l.host.funcs),
                                          Len(l.host.funcs), <<>>, <<>>, <<>>))]

\* Host::instantiate_funcs from function i on; module.types()[type_id] and
\* module.code()[code_idx] panic out of range
RECURSIVE InstantiateFuncs(_, _, _, _)
InstantiateFuncs(l, instance_addr, module, i) ==
    IF i > Len(module.funcs) THEN l
    ELSE IF module.funcs[i] >= Len(module.types) \/ i > Len(module.code) THEN Panic(l)
    ELSE InstantiateFuncs(
             PushFunc(l, FuncInst_local(module.types[module.funcs[i] + 1],
                                        instance_addr, module.code[i])),
             instance_addr, module, i + 1)

\* [Instruction::ConstI32(val)]: the expression is one constant of type i32
IsConstI32(expr) ==
    Len(expr) = 1 /\ expr[1].op = "const" /\ Typ(expr[1].val) = "i32"

\* mem[offset..end].copy_from_slice(init)
CopyFromSlice(mem, offset, end, init) ==
    [j \in 1..Len(mem) |-> IF j > offset /\ j <= end THEN init[j - offset] ELSE mem[j]]

\* The bounds check had it let the bytes that fit be written before it fails.
WriteData_Clamped(l, mem_addr, seg, offset) ==
    LET mem == l.host.mems[mem_addr + 1]
        end == offset + Len(seg.init)
        fits == IF end <= Len(mem) THEN end ELSE Len(mem)
        written == CopyFromSlice(mem, offset, fits, seg.init)
    IN  IF (offset + end) > Len(mem)
        THEN [l EXCEPT !.kind = "err", !.error = InvalidModule,
                       !.host.mems[mem_addr + 1] = written,
                       !.log = Append(@, HostEvent("rejected", mem_addr, offset, seg, mem, written))]
        ELSE [l EXCEPT !.host.mems[mem_addr + 1] = written,
                       !.log = Append(@, HostEvent("data", mem_addr, offset, seg, mem, written))]

\* host.rs 185-194: the bounds check `(offset + end) > mem.len()` and the copy
WriteData(l, mem_addr, seg, offset) ==
    LET mem == l.host.mems[mem_addr + 1]
        end == offset + Len(seg.init)
        written == CopyFromSlice(mem, offset, end, seg.init)
    IN  IF (offset + end) > Len(mem)
        THEN [l EXCEPT !.kind = "err", !.error = InvalidModule,
                       !.log = Append(@, HostEvent("rejected", mem_addr, offset, seg, mem, mem))]
        ELSE [l EXCEPT !.host.mems[mem_addr + 1] = written,
                       !.log = Append(@, HostEvent("data", mem_addr, offset, seg, mem, written))]

\* The offset match had its other arm give the offset 0.
BadOffset_AsZero(l, seg) ==
    IF seg.index >= Len(l.mems) THEN Panic(l)
    ELSE WriteData(l, l.mems[seg.index + 1], seg, 0)

\* host.rs 178-181, `_ => return Err(Error::InvalidModule)`: nothing is written
BadOffset(l, seg) ==
    [Fail(l, InvalidModule)
     EXCEPT !.log = Append(@, HostEvent("malformed", 0, 0, seg, l.host.mems, l.host.mems))]

RECURSIVE InstantiateData(_, _, _)

\* host.rs 176-195 with l what the segment left: an error ends the loop
DataWritten(l, data, i) ==
    IF l.kind # "ok" THEN l ELSE InstantiateData(l, data, i + 1)

\* Host::instantiate_data from segment i on: the offset must be one constant,
\* mems[data.index] panics out of range
InstantiateData(l, data, i) ==
    IF i > Len(data) THEN l
    ELSE IF ~IsConstI32(data[i].expr) THEN BadOffset(l, data[i])
    ELSE IF data[i].index >= Len(l.mems) THEN Panic(l)
    ELSE DataWritten(WriteData(l, l.mems[data[i].index + 1], data[i], data[i].expr[1].val.val),
                     data, i)

\* The export loop had it skipped the memory exports with the other kinds.
ExportOne_SkipMemory(l, export) ==
    IF export.description.kind = "Function"
    THEN IF export.description.idx >= Len(l.funcs) THEN Panic(l)
         ELSE [l EXCEPT !.exports = Append(@, ExportInst_func(export.name,
                                                  l.funcs[export.description.idx + 1]))]
    ELSE l

\* A memory export had it bound the instance's first resolved memory, where
\* there is one, instead of a new memory instance.
ExportOne_ReuseMemory(l, export) ==
    IF export.description.kind = "Function"
    THEN IF export.description.idx >= Len(l.funcs) THEN Panic(l)
         ELSE [l EXCEPT !.exports = Append(@, ExportInst_func(export.name,
                                                  l.funcs[export.description.idx + 1]))]
    ELSE IF export.description.kind = "Memory"
    THEN IF l.mems # <<>>
         THEN [l EXCEPT !.exports = Append(@, ExportInst_mem(export.name, l.mems[1]))]
         ELSE [l EXCEPT !.host.mems = Append(@, MemInst_from_type(export.description.min)),
                        !.exports = Append(@, ExportInst_mem(export.name, Len(l.host.mems))),
                        !.log = Append(@, HostEvent("mem", Len(l.host.mems), Len(l.host.mems),
                                                    <<>>, <<>>, <<>>))]
    ELSE l

\* host.rs 114-127: one export; funcs[func_idx] panics out of range, a memory
\* export pushes a new MemInst, the other kinds are skipped
ExportOne(l, export) ==
    IF export.description.kind = "Function"
    THEN IF export.description.idx >= Len(l.funcs) THEN Panic(l)
         ELSE [l EXCEPT !.exports = Append(@, ExportInst_func(export.name,
                                                  l.funcs[export.description.idx + 1]))]
    ELSE IF export.description.kind = "Memory"
    THEN [l EXCEPT !.host.mems = Append(@, MemInst_from_type(export.description.min)),
                   !.exports = Append(@, ExportInst_mem(export.name, Len(l.host.mems))),
                   !.log = Append(@, HostEvent("mem", Len(l.host.mems), Len(l.host.mems),
                                               <<>>, <<>>, <<>>))]
    ELSE l

RECURSIVE ExportModule(_, _, _)

\* host.rs 113-128 with l what the export left
Exported(l, module_exports, i) ==
    IF l.kind # "ok" THEN l ELSE ExportModule(l, module_exports, i + 1)

\* Host::export_module from export i on
ExportModule(l, module_exports, i) ==
    IF i > Len(module_exports) THEN l
    ELSE Exported(ExportOne(l, module_exports[i]), module_exports, i)

\* host.rs 102-104 (and 84-86): self.modules.push(ModuleInst::new(..)), the handle
\* taken at the start of the call is returned
Register(l, name, mems, module_addr) ==
    IF l.kind # "ok" THEN l
    ELSE [l EXCEPT !.host.modules = Append(@, ModuleInst(name, l.funcs, mems, l.exports)),
                   !.addr = module_addr,
                   !.log = Append(@, HostEvent("module", module_addr, Len(l.host.modules),
                                               <<>>, <<>>, <<>>))]

\* Instantiation had it taken back the functions of the call when a data
\* segment fails.
DataInstantiated_RollsBack(l, module, module_addr) ==
    IF l.kind # "ok"
    THEN [l EXCEPT !.host.funcs = SubSeq(@, 1, Len(@) - Len(module.funcs))]
    ELSE Register(ExportModule(l, module.exports, 1), module.name, l.mems, module_addr)

\* host.rs 98-104 with l what instantiate_data returned: `?` hands the error on,
\* otherwise the exports are computed and the module registered
DataInstantiated(l, module, module_addr) ==
    IF l.kind # "ok" THEN l
    ELSE Register(ExportModule(l, module.exports, 1), module.name, l.mems, module_addr)

\* A failure in the data segments had it put the memories back as
\* instantiate_data found them.
FuncsInstantiated_RestoresMemories(l, module, module_addr) ==
    IF l.kind # "ok" THEN l
    ELSE IF InstantiateData(l, module.data, 1).kind = "err"
    THEN [Fail(l, InvalidModule) EXCEPT !.log = InstantiateData(l, module.data, 1).log]
    ELSE DataInstantiated(InstantiateData(l, module.data, 1), module, module_addr)

\* host.rs 97-98 with l what instantiate_funcs left
FuncsInstantiated(l, module, module_addr) ==
    IF l.kind # "ok" THEN l
    ELSE DataInstantiated(InstantiateData(l, module.data, 1), module, module_addr)

\* Instantiation had it given the functions the number of modules after the
\* push as their owner, not the handle taken before it.
ImportsResolved_OwnerAfterPush(l, module, module_addr) ==
    IF l.kind # "ok" THEN l
    ELSE FuncsInstantiated(InstantiateFuncs(l, module_addr + 1, module, 1), module, module_addr)

\* host.rs 96-97 with l what resolve_imports returned: `?` hands the error on
ImportsResolved(l, module, module_addr) ==
    IF l.kind # "ok" THEN l
    ELSE FuncsInstantiated(InstantiateFuncs(l, module_addr, module, 1), module, module_addr)

\* Instantiation had it instantiated the functions before it resolves the imports.
Host_instantiate_FuncsFirst(h, module) ==
    FuncsInstantiated(
        ResolveImports(InstantiateFuncs(Link(h), Len(h.modules), module, 1), module.imports, 1),
        module, Len(h.modules))

\* Host::instantiate
Host_instantiate(h, module) ==
    ImportsResolved(ResolveImports(Link(h), module.imports, 1), module, Len(h.modules))

\* host.rs 72-78: one External function instance per callable of the builder
RECURSIVE SynthFuncs(_, _, _)
SynthFuncs(l, funcs, i) ==
    IF i > Len(funcs) THEN l
    ELSE SynthFuncs(PushFunc(l, FuncInst_synthetic(funcs[i])), funcs, i + 1)

\* Synthesis had it made one function instance per declared export.
Host_synthesize_FuncPerExport(h, module) ==
    Register(ExportModule(SynthFuncs(Link(h),
                                     [i \in 1..Len(module.exports) |->
                                         module.funcs[module.exports[i].description.idx + 1]],
                                     1),
                          [i \in 1..Len(module.exports) |->
                              Export(module.exports[i].name, MemberDesc_Function(i - 1))],
                          1),
             module.name, <<>>, Len(h.modules))

\* Host::synthesize
Host_synthesize(h, module) ==
    Register(ExportModule(SynthFuncs(Link(h), module.funcs, 1), module.exports, 1),
             module.name, <<>>, Len(h.modules))

\* ------------------------------------------------------------------ inputs of the Host

\* Module: what the loader hands to instantiate
Module(name, types, funcs, code, imports, exports, data) ==
    [name |-> name, types |-> types, funcs |-> funcs, code |-> code,
     imports |-> imports, exports |-> exports, data |-> data]

\* ModuleBuilder { name, funcs, exports }: the callables of the host and the
\* names they are exported under
ModuleBuilder(name, funcs, exports) ==
    [name |-> name, types |-> <<>>, funcs |-> funcs, code |-> <<>>,
     imports |-> <<>>, exports |-> exports, data |-> <<>>]
HostFunc(name, typ) == [name |-> name, typ |-> typ]

\* The builders given to synthesize: an environment whose first callable is
\* exported under two names, and a builder with nothing in it.
Builders ==
    { ModuleBuilder("env", <<HostFunc("print", "t0"), HostFunc("exit", "t1")>>,
                    <<Export("print", MemberDesc_Function(0)),
                      Export("log", MemberDesc_Function(0)),
                      Export("exit", MemberDesc_Function(1))>>),
      ModuleBuilder("none", <<>>, <<>>) }

\* A module "app" importing from "lib" (a memory of length 4 and a function)
\* with one local function and the given data segments.
App(data) ==
    Module("app", <<"t0">>, <<0>>, <<"c0">>,
           <<Import("lib", "mem"), Import("lib", "f")>>,
           <<Export("main", MemberDesc_Function(1)), Export("again", MemberDesc_Function(0))>>,
           data)

\* The names given to find_module.
ModuleNames == {"lib", "self", "nope"}

\* The modules given to instantiate.
ModuleInputs ==
    { \* the empty module
      Module("empty", <<>>, <<>>, <<>>, <<>>, <<>>, <<>>),
      \* two functions, exports of every kind: a function, two memories, a table
      Module("lib", <<"t0", "t1">>, <<1, 0>>, <<"c0", "c1">>, <<>>,
             <<Export("f", MemberDesc_Function(1)), Export("mem", MemberDesc_Memory(4)),
               Export("tab", MemberDesc_Table), Export("small", MemberDesc_Memory(2))>>,
             <<>>),
      \* segments inside the memory: at its start, in its middle, up to its end
      App(<<Data(0, <<Const(I32(0))>>, <<1, 2>>)>>),
      App(<<Data(0, <<Const(I32(1))>>, <<7, 8>>)>>),
      App(<<Data(0, <<Const(I32(2))>>, <<5, 6>>)>>),
      \* segments past the end of the memory, the second after one that fits
      App(<<Data(0, <<Const(I32(0))>>, <<1, 2, 3, 4, 5>>)>>),
      App(<<Data(0, <<Const(I32(0))>>, <<9>>), Data(0, <<Const(I32(3))>>, <<1, 2>>)>>),
      \* offsets that are not one i32 constant
      App(<<Data(0, <<>>, <<1>>)>>),
      App(<<Data(0, <<Const(F32(0))>>, <<1>>)>>),
      App(<<Data(0, <<Const(I32(0)), Const(I32(1))>>, <<1>>)>>),
      \* a segment that is copied, then an offset that is no constant
      App(<<Data(0, <<Const(I32(1))>>, <<4>>), Data(0, <<Call(0)>>, <<1>>)>>),
      \* a segment for a memory the instance does not have
      App(<<Data(3, <<Const(I32(0))>>, <<1>>)>>),
      \* payload [1, 2, 3] for a memory of length 2
      Module("tiny", <<>>, <<>>, <<>>, <<Import("lib", "small")>>, <<>>,
             <<Data(0, <<Const(I32(0))>>, <<1, 2, 3>>)>>),
      \* imports from the environment and the library, functions and memories mixed
      Module("mix", <<"t1">>, <<0, 0>>, <<"c0", "c1">>,
             <<Import("env", "log"), Import("lib", "mem"), Import("lib", "f"),
               Import("lib", "small"), Import("env", "exit")>>,
             <<Export("last", MemberDesc_Function(4)), Export("exit", MemberDesc_Function(2)),
               Export("own", MemberDesc_Memory(1))>>,
             <<Data(1, <<Const(I32(0))>>, <<3>>)>>),
      \* an import from a module that is not registered, after one that resolves
      Module("lost", <<"t0">>, <<0>>, <<"c0">>,
             <<Import("lib", "f"), Import("nope", "x")>>,
             <<Export("m", MemberDesc_Memory(1))>>, <<>>),
      \* an import of a name the module does not export
      Module("miss", <<"t0">>, <<0>>, <<"c0">>,
             <<Import("lib", "f"), Import("lib", "tab")>>,
             <<Export("m", MemberDesc_Memory(1))>>, <<>>),
      \* an export of a function the instance does not have; a type it does not have
      \* a second library of the same name with other exports, a module that
      \* imports what only that one exports, a module that imports from itself
      Module("lib", <<"t0">>, <<0>>, <<"c0">>, <<>>,
             <<Export("extra", MemberDesc_Function(0)), Export("f", MemberDesc_Function(0))>>,
             <<>>),
      Module("uses", <<>>, <<>>, <<>>, <<Import("lib", "extra")>>, <<>>, <<>>),
      Module("self", <<"t0">>, <<0>>, <<"c0">>, <<Import("self", "f")>>,
             <<Export("f", MemberDesc_Function(1))>>, <<>>),
      Module("badexp", <<"t0">>, <<0>>, <<"c0">>, <<>>,
             <<Export("f", MemberDesc_Function(7))>>, <<>>),
      Module("badtyp", <<"t0">>, <<0, 4>>, <<"c0", "c1">>, <<>>, <<>>, <<>>) }

\* ------------------------------------------------------------------ reader/mod.rs: the Reader

\* const EXPECTED_MAGIC: u32 = 0x6D736100
EXPECTED_MAGIC == 1836278016

\* What a read of the stream gives: the value read and the bytes left, or an
\* UnexpectedEof, which leaves no byte.
ReadOk(val, rest) == [ok |-> TRUE, val |-> val, rest |-> rest]
ReadEof == [ok |-> FALSE, val |-> 0, rest |-> <<>>]

\* io::Read::read_exact: the next n bytes, UnexpectedEof when fewer are left
read_exact(src, n) ==
    IF Len(src) >= n THEN ReadOk(SubSeq(src, 1, n), SubSeq(src, n + 1, Len(src))) ELSE ReadEof

\* LittleEndian::read_u32: the first byte is the least significant
LittleEndian_read_u32(buf) == buf[1] + 256 * buf[2] + 65536 * buf[3] + 16777216 * buf[4]

\* ReadBytesExt::read_u8
read_u8(src) == IF src # <<>> THEN ReadOk(src[1], Tail(src)) ELSE ReadEof

\* utils::read_leb128_u32: unsigned base-128, little-endian; a byte with the
\* high bit set is followed by another byte
RECURSIVE Leb128(_, _, _)
Leb128(src, scale, sum) ==
    IF src = <<>> THEN ReadEof
    ELSE IF src[1] >= 128 THEN Leb128(Tail(src), scale * 128, sum + (src[1] - 128) * scale)
    ELSE ReadOk(sum + src[1] * scale, Tail(src))

read_leb128_u32(src) == Leb128(src, 1, 0)

\* struct ModuleHeader, struct SectionHeader (the SectionId is kept as its byte)
SectionHeader(id, size) == [id |-> id, size |-> size]
NoHeader == SectionHeader(0, 0)

\* What a call of the Reader returns, and the stream it leaves: kind is "ok",
\* "none" (Ok(None)), "io" (an io::Error) or "invalid" (Error::InvalidModule).
Read(kind, src) ==
    [kind |-> kind, version |-> 0, header |-> NoHeader, funcs |-> <<>>, source |-> src]

\* read_module_header with a test of the version against version 1
VersionRead_Checked(version) ==
    IF ~version.ok THEN Read("io", version.rest)
    ELSE IF LittleEndian_read_u32(version.val) # 1 THEN Read("invalid", version.rest)
    ELSE [Read("ok", version.rest) EXCEPT !.version = LittleEndian_read_u32(version.val)]

\* read_module_header, the version: read and returned
VersionRead(version) ==
    IF ~version.ok THEN Read("io", version.rest)
    ELSE [Read("ok", version.rest) EXCEPT !.version = LittleEndian_read_u32(version.val)]

\* read_module_header, the magic
MagicRead(magic) ==
    IF ~magic.ok THEN Read("io", magic.rest)
    ELSE IF LittleEndian_read_u32(magic.val) # EXPECTED_MAGIC THEN Read("invalid", magic.rest)
    ELSE VersionRead(read_exact(magic.rest, 4))

\* Reader::read_module_header
Reader_read_module_header(src) == MagicRead(read_exact(src, 4))

\* read_section_header, the size
SizeRead(id, size) ==
    IF ~size.ok THEN Read("io", size.rest)
    ELSE [Read("ok", size.rest) EXCEPT !.header = SectionHeader(id, size.val)]

\* read_section_header, the id: UnexpectedEof is Ok(None)
IdRead(id) ==
    IF ~id.ok THEN Read("none", id.rest)
    ELSE SizeRead(id.val, read_leb128_u32(id.rest))

\* Reader::read_section_header
Reader_read_section_header(src) == IdRead(read_u8(src))

\* io::Read::take: a reader of at most limit bytes of src
Take(src, limit) == SubSeq(src, 1, IF limit < Len(src) THEN limit ELSE Len(src))

\* utils::read_vec: a count, then that many items
RECURSIVE ReadItems(_, _, _)
RECURSIVE ItemRead(_, _, _)
ReadItems(view, n, items) ==
    IF n = 0 THEN ReadOk(items, view)
    ELSE ItemRead(read_leb128_u32(view), n, items)

ItemRead(item, n, items) ==
    IF ~item.ok THEN ReadEof
    ELSE ReadItems(item.rest, n - 1, Append(items, item.val))

read_vec(count) ==
    IF ~count.ok THEN ReadEof ELSE ReadItems(count.rest, count.val, <<>>)

\* FunctionSection::read
FunctionSection_read(reader) == read_vec(read_leb128_u32(reader))

\* What S::read returns, and the stream without the bytes S::read took from
\* the reader it was given.
SectionRead(src, reader, section) ==
    [Read(IF section.ok THEN "ok" ELSE "io",
          SubSeq(src, Len(reader) - Len(section.rest) + 1, Len(src)))
     EXCEPT !.funcs = section.val]

\* read_section_helper without take: S::read is given the stream
read_section_helper_Unbounded(src, header) ==
    SectionRead(src, src, FunctionSection_read(src))

\* read_section_helper: S::read(&mut reader.take(header.size as u64))
read_section_helper(src, header) ==
    SectionRead(src, Take(src, header.size), FunctionSection_read(Take(src, header.size)))

\* Reader::read_section
Reader_read_section(src, header) == read_section_helper(src, header)

\* Reader::skip: seek forward by amount, the end of the stream is no limit
Reader_skip(src, amount) == Read("ok", SubSeq(src, amount + 1, Len(src)))

\* A Reader that has read nothing.
NotRead ==
    [op |-> "new", pre |-> <<>>, given |-> NoHeader, kind |-> "ok", version |-> 0,
     header |-> NoHeader, funcs |-> <<>>]

\* ------------------------------------------------------------------ inputs of the Reader

\* Module headers: the magic "\0asm" with version 1 and version 2, and two
\* wrong magics.
Headers ==
    {<<0, 97, 115, 109, 1, 0, 0, 0>>, <<0, 97, 115, 109, 2, 0, 0, 0>>,
     <<0, 97, 115, 110, 1, 0, 0, 0>>, <<1, 97, 115, 109, 1, 0, 0, 0>>}

\* Sections, id 3 being the function section: a payload of two bytes with one
\* item; a payload of one byte that announces two items; a length written in
\* two bytes; an empty payload.
SectionBytes == {<<3, 2, 1, 0>>, <<3, 1, 2>>, <<3, 130, 0, 1, 7>>, <<1, 0>>}

\* The streams of n sections.
RECURSIVE Sections(_)
Sections(n) ==
    IF n = 0 THEN {<<>>}
    ELSE {s \o t : s \in Sections(n - 1), t \in SectionBytes} \cup Sections(n - 1)

\* The streams given to Reader::new: a header and up to MaxSections sections, cut
\* anywhere.
Streams ==
    {SubSeq(h \o s, 1, n) : <<h, s, n>> \in
        {<<h, s, n>> \in Headers \X Sections(MaxSections) \X (0..(8 + 5 * MaxSections)) :
            n <= Len(h \o s)}}

\* ------------------------------------------------------------------ value/mod.rs: FromValue

\* enum TrapCause
NoCause == [cause |-> "none", expected |-> "nil", actual |-> "nil"]
TrapCause_StackUnderflow == [cause |-> "StackUnderflow", expected |-> "nil", actual |-> "nil"]
TrapCause_TypeMismatch(expected, actual) ==
    [cause |-> "TypeMismatch", expected |-> expected, actual |-> actual]

\* impl_from_value!($repr, $v): the native types and the variant of each
NativeTypes == {"u32", "u64", "i32", "i64", "f32", "f64"}
Variant(repr) ==
    CASE repr \in {"u32", "i32"} -> "i32"
      [] repr \in {"u64", "i64"} -> "i64"
      [] repr = "f32" -> "f32"
      [] repr = "f64" -> "f64"

\* `x as $repr`: a cast to a type of the same width keeps the bits; read as i32,
\* the bits of a u32 above i32::MAX are a negative number (the payloads of i64
\* stay below 2^31 here, where the number is kept)
Cast(repr, x) ==
    IF repr = "i32" /\ x > 2147483647 THEN (x - 2147483647) - 2147483647 - 2 ELSE x

Coerced(val) == [ok |-> TRUE, val |-> val, cause |-> NoCause]
NotCoercible(cause) == [ok |-> FALSE, val |-> 0, cause |-> cause]

\* from_value without the arm for Nil
FromValue_from_value_NoNilArm(repr, v) ==
    IF Typ(v) = Variant(repr) THEN Coerced(Cast(repr, v.val))
    ELSE NotCoercible(TrapCause_TypeMismatch(Variant(repr), Typ(v)))

\* FromValue::from_value for $repr
FromValue_from_value(repr, v) ==
    IF Typ(v) = Variant(repr) THEN Coerced(Cast(repr, v.val))
    ELSE IF v = Nil THEN NotCoercible(TrapCause_StackUnderflow)
    ELSE NotCoercible(TrapCause_TypeMismatch(Variant(repr), Typ(v)))

\* The values given to from_value.
Values ==
    {Nil} \cup UNION {{I32(n), I64(n), F32(n), F64(n)} : n \in 0..MaxPayload}

\* No from_value has run.
NotCoerced == [repr |-> "none", value |-> Nil, ok |-> TRUE, val |-> 0, cause |-> NoCause]

\* ------------------------------------------------------------------ the Host's operations

\* What is known of a Host no call was made on.
NotCalled ==
    [op |-> "new", input |-> Module("", <<>>, <<>>, <<>>, <<>>, <<>>, <<>>), pre |-> Host_new,
     kind |-> "ok", addr |-> 0, error |-> NoError, log |-> <<>>,
     funcs |-> <<>>, mems |-> <<>>, exports |-> <<>>]

\* Host::new (and a Thread that runs nothing)
HostInit ==
    /\ theHost = Host_new
    /\ outcome = NotCalled
    /\ stack = Stack_new
    /\ panicked = FALSE
    /\ last = [op |-> "new", module |-> 0, func |-> NoFunc, code |-> <<>>, pre |-> <<>>,
               kind |-> "ok", vals |-> <<>>, trap |-> NoTrap, log |-> <<>>]
    /\ source = <<>> /\ got = NotRead
    /\ coerced = NotCoerced

\* A call of the Host returns l: the Host keeps l.host, the caller gets
\* Ok(l.addr), Err(l.error) or the panic.
HostReturn(op, input, l) ==
    /\ theHost' = l.host
    /\ outcome' = [op |-> op, input |-> input, pre |-> theHost,
                   kind |-> l.kind, addr |-> l.addr, error |-> l.error, log |-> l.log,
                   funcs |-> l.funcs, mems |-> l.mems, exports |-> l.exports]
    /\ UNCHANGED <<vars, readerVars, valueVars>>

\* The Host is there to call: no call has panicked and the arenas are within the bounds.
HostReady ==
    /\ outcome.kind # "panic"
    /\ Len(theHost.modules) < MaxModules
    /\ Len(theHost.funcs) < MaxInstances
    /\ Len(theHost.mems) < MaxInstances

\* host.synthesize(builder)
Synthesize(builder) ==
    /\ HostReady
    /\ HostReturn("synthesize", builder, Host_synthesize(theHost, builder))

\* host.instantiate(module)
Instantiate(module) ==
    /\ HostReady
    /\ HostReturn("instantiate", module, Host_instantiate(theHost, module))

\* The Option<ModuleAddr> find_module returns, as what a call returns: "none"
\* for None, "some" with the handle for Some.
FoundAt(l, found) ==
    IF found = None THEN [l EXCEPT !.kind = "none"]
    ELSE [l EXCEPT !.kind = "some", !.addr = found[1]]

\* host.find_module(name)
FindModule(name) ==
    /\ outcome.kind # "panic"
    /\ HostReturn("find_module", Module(name, <<>>, <<>>, <<>>, <<>>, <<>>, <<>>),
                  FoundAt(Link(theHost), Host_find_module(theHost, name)))

HostNext ==
    \/ \E b \in Builders : Synthesize(b)
    \/ \E m \in ModuleInputs : Instantiate(m)
    \/ \E name \in ModuleNames : FindModule(name)

HostSpec == HostInit /\ [][HostNext]_allVars

\* ------------------------------------------------------------------ the Thread's operations

\* Thread::new
Init ==
    /\ stack = Stack_new
    /\ panicked = FALSE
    /\ last = [op |-> "new", module |-> 0, func |-> NoFunc, code |-> <<>>, pre |-> <<>>,
               kind |-> "ok", vals |-> <<>>, trap |-> NoTrap, log |-> <<>>]
    /\ source = <<>> /\ got = NotRead
    /\ coerced = NotCoerced
    /\ theHost = Host_new
    /\ outcome = NotCalled

\* An operation returns r: the Thread keeps r.stack, the caller gets the rest.
Return(op, module, func, code, r) ==
    /\ stack' = r.stack
    /\ panicked' = (r.kind = "panic")
    /\ last' = [op |-> op, module |-> module, func |-> func, code |-> code, pre |-> stack,
                kind |-> r.kind, vals |-> r.vals, trap |-> r.trap, log |-> r.log]
    /\ UNCHANGED <<hostVars, readerVars, valueVars>>

\* The operand values on all frames of the stack.
RECURSIVE TotalValues(_)
TotalValues(s) ==
    IF s = <<>> THEN 0 ELSE Len(s[Len(s)].values) + TotalValues(SubSeq(s, 1, Len(s) - 1))

\* What is known of the operation that ran last once the owner of the Thread has
\* looked at the stack.
Seen == [op |-> "stack", module |-> 0, func |-> NoFunc, code |-> <<>>, pre |-> <<>>,
         kind |-> "ok", vals |-> <<>>, trap |-> NoTrap, log |-> <<>>]

\* The owner of the Thread looks at the stack before each of eval, call and invoke.
Inspected == last = Seen

\* thread.stack(): a shared reference to the stack, which stays as it is
Stack ==
    /\ ~panicked
    /\ ~Inspected
    /\ stack' = stack
    /\ panicked' = panicked
    /\ last' = Seen
    /\ UNCHANGED <<hostVars, readerVars, valueVars>>

\* thread.stack_mut().enter(module, None, [])
Enter(module) ==
    /\ ~panicked
    /\ Len(stack) <= MaxDepth
    /\ Return("enter", module, NoFunc, <<>>,
              ROk(Stack_enter(stack, module, None, <<>>), <<>>, <<>>))

\* thread.stack_mut().exit()
Exit ==
    /\ ~panicked
    /\ LET x == Stack_exit(stack)
       IN  Return("exit", 0, NoFunc, <<>>,
                  IF x.panic THEN RPanic(x.stack, <<>>) ELSE ROk(x.stack, <<>>, <<>>))

\* thread.push(v)
Push(v) ==
    /\ ~panicked
    /\ TotalValues(stack) < MaxValues
    /\ Return("push", 0, NoFunc, <<v>>, Thread_push(stack, <<>>, v))

\* thread.pop()
Pop ==
    /\ ~panicked
    /\ Return("pop", 0, NoFunc, <<>>, Thread_pop(stack, <<>>))

\* thread.eval(module, expr, host)
Eval(module, expr) ==
    /\ ~panicked
    /\ Inspected
    /\ Len(stack) <= MaxDepth
    /\ Return("eval", module, NoFunc, expr, Thread_eval(stack, <<>>, module, expr))

\* thread.call(host, module, func, exprs)
CallFunc(module, func, exprs) ==
    /\ ~panicked
    /\ Inspected
    /\ Len(stack) <= MaxDepth
    /\ Return("call", module, func, exprs, Thread_call(stack, <<>>, module, func, exprs))

\* thread.invoke(host, func)
Invoke(func) ==
    /\ ~panicked
    /\ Inspected
    /\ Len(stack) <= MaxDepth
    /\ Return("invoke", 0, func, <<>>, Thread_invoke(stack, <<>>, func))

Next ==
    \/ Stack
    \/ \E m \in Modules : Enter(m)
    \/ Exit
    \/ \E v \in PushVals : Push(v)
    \/ Pop
    \/ \E m \in Modules, e \in Exprs : Eval(m, e)
    \/ \E m \in Modules, f \in CallFuncs, a \in ArgLists : CallFunc(m, f, a)
    \/ \E f \in FuncAddrs : Invoke(f)

Spec == Init /\ [][Next]_allVars

\* ------------------------------------------------------------------ the Reader's operations

\* Reader::new(source)
ReaderInit ==
    /\ source \in Streams
    /\ got = NotRead
    /\ stack = Stack_new
    /\ panicked = FALSE
    /\ last = [op |-> "new", module |-> 0, func |-> NoFunc, code |-> <<>>, pre |-> <<>>,
               kind |-> "ok", vals |-> <<>>, trap |-> NoTrap, log |-> <<>>]
    /\ theHost = Host_new /\ outcome = NotCalled
    /\ coerced = NotCoerced

\* A call of the Reader returns r: the Reader's stream is r.source, the caller
\* gets the rest.
ReaderReturn(op, given, r) ==
    /\ source' = r.source
    /\ got' = [op |-> op, pre |-> source, given |-> given, kind |-> r.kind,
               version |-> r.version, header |-> r.header, funcs |-> r.funcs]
    /\ UNCHANGED <<vars, hostVars, valueVars>>

\* reader.read_module_header(), the first call on a Reader
ReadModuleHeader ==
    /\ got.op = "new"
    /\ ReaderReturn("read_module_header", NoHeader, Reader_read_module_header(source))

\* reader.read_section_header()
ReadSectionHeader ==
    ReaderReturn("read_section_header", NoHeader, Reader_read_section_header(source))

\* reader.read_section::<FunctionSection>(header), header being the one just read
ReadSection ==
    /\ got.op = "read_section_header" /\ got.kind = "ok"
    /\ ReaderReturn("read_section", got.header, Reader_read_section(source, got.header))

\* reader.skip(header.size), header being the one just read
Skip ==
    /\ got.op = "read_section_header" /\ got.kind = "ok"
    /\ ReaderReturn("skip", got.header, Reader_skip(source, got.header.size))

ReaderNext ==
    \/ ReadModuleHeader
    \/ ReadSectionHeader
    \/ ReadSection
    \/ Skip

ReaderSpec == ReaderInit /\ [][ReaderNext]_allVars

\* ------------------------------------------------------------------ from_value

ValueInit ==
    /\ coerced = NotCoerced
    /\ stack = Stack_new
    /\ panicked = FALSE
    /\ last = [op |-> "new", module |-> 0, func |-> NoFunc, code |-> <<>>, pre |-> <<>>,
               kind |-> "ok", vals |-> <<>>, trap |-> NoTrap, log |-> <<>>]
    /\ theHost = Host_new /\ outcome = NotCalled
    /\ source = <<>> /\ got = NotRead

\* <$repr>::from_value(v)
FromValue(repr, v) ==
    /\ coerced' = [repr |-> repr, value |-> v] @@ FromValue_from_value(repr, v)
    /\ UNCHANGED <<vars, hostVars, readerVars>>

ValueNext == \E repr \in NativeTypes, v \in Values : FromValue(repr, v)

ValueSpec == ValueInit /\ [][ValueNext]_allVars

\* ------------------------------------------------------------------ reading an outcome

\* The function the last invoke or call named.
LastFunc == Host_get_func(last.func)

\* The operand stack of the caller's current frame when the operation started.
CallerValues == last.pre[Len(last.pre)].values

\* The i-th most recently pushed value of an operand stack.
Recent(values, i) == values[Len(values) - i + 1]

\* The declared types (of parameters or results) no value of the operand stack
\* answers to, each type taking the next most recently pushed value.
Unmatched(values, types) ==
    {i \in 1..Len(types) : i > Len(values) \/ Typ(Recent(values, i)) # types[i]}

First(S) == CHOOSE i \in S : \A j \in S : i <= j

\* The trap message a pop for the first unmatched type ends in.
UnmatchedMessage(values, types) ==
    LET i == First(Unmatched(values, types))
    IN  IF i > Len(values) THEN StackUnderflow
        ELSE TypeMismatch(types[i], Typ(Recent(values, i)))

\* The n most recently pushed values, the most recent first.
RecentFirst(values, n) == [i \in 1..n |-> Recent(values, i)]

\* An invoke of a Local function by a caller that has a current frame.
LocalInvoke == last.op = "invoke" /\ LastFunc.imp = "local" /\ last.pre # <<>>

\* An invoke of an External function by a caller that has a current frame.
ExternalInvoke == last.op = "invoke" /\ LastFunc.imp = "external" /\ last.pre # <<>>

\* The body of the invoked Local function ran to its end: the values it left.
BodyRan ==
    /\ last.op = "invoke" /\ LastFunc.imp = "local"
    /\ last.log # <<>> /\ last.log[Len(last.log)].ev = "ran"
    /\ last.log[Len(last.log)].func = last.func
BodyLeft == last.log[Len(last.log)].vals

\* The expression given to eval ran to its end: the values it left.
ExprRan == last.op = "eval" /\ last.log # <<>> /\ last.log[Len(last.log)].ev = "ran"
ExprLeft == last.log[Len(last.log)].vals

\* ------------------------------------------------------------------ claims

\* C1: Thread::invoke of a Local function, whatever the caller's operand stack holds,
\* leaves the ExecutionStack with the number of frames it had before the call, on
\* every outcome (success, a trap while binding, in the body, while popping results,
\* and 'stack not empty').
C1_InvokeKeepsFrameCount ==
    LocalInvoke => Len(stack) = Len(last.pre)

\* C2: Thread::eval exits the frame it entered on every path on which it returns:
\* the frame count after eval is the frame count before it.
C2_EvalKeepsFrameCount ==
    (last.op = "eval" /\ last.kind # "panic") => Len(stack) = Len(last.pre)

\* C3: Thread::call exits the intermediate frame on every path on which it returns:
\* the frame count after call is the frame count before it.
C3_CallKeepsFrameCount ==
    (last.op = "call" /\ last.kind # "panic") => Len(stack) = Len(last.pre)

\* A Local function with no parameters, one declared i32 result and a body that
\* pushes one i32 constant.
ConstI32Func(fi) ==
    /\ fi.imp = "local" /\ fi.typ.params = <<>> /\ fi.typ.results = <<"i32">>
    /\ Len(fi.body) = 1 /\ fi.body[1].op = "const" /\ Typ(fi.body[1].val) = "i32"

\* C4: on a Thread from Thread::new, after any completed operations or none, invoking
\* a () -> i32 function whose body pushes one i32 constant returns Ok with that value
\* and leaves the ExecutionStack as it was.
C4_ConstFuncReturnsItsValue ==
    (last.op = "invoke" /\ ConstI32Func(LastFunc)) =>
        /\ last.kind = "ok"
        /\ last.vals = <<LastFunc.body[1].val>>
        /\ stack = last.pre

\* C5: at the result boundary of a Local function, values that do not answer to the
\* declared results end in a trap, never in Ok: stack underflow for a missing value,
\* a type mismatch for a value of the wrong type, 'stack not empty' for a value left
\* over after all results are popped.
C5_ResultMismatchTraps ==
    BodyRan =>
        LET results == LastFunc.typ.results
        IN  /\ Unmatched(BodyLeft, results) # {} =>
                /\ last.kind = "trap"
                /\ last.trap.message = UnmatchedMessage(BodyLeft, results)
            /\ (Unmatched(BodyLeft, results) = {} /\ Len(BodyLeft) > Len(results)) =>
                /\ last.kind = "trap"
                /\ last.trap.message = StackNotEmpty

\* The locals parameter binding is to give the callee's frame: the parameters in the
\* order they were popped, then a zero of each declared local.
BoundLocals(values, fi) ==
    [i \in 1..(Len(fi.typ.params) + Len(fi.locals)) |->
        IF i <= Len(fi.typ.params) THEN Recent(values, i)
        ELSE [typ |-> fi.locals[i - Len(fi.typ.params)], val |-> 0]]

\* C6: binding the parameters of a Local function pops one value per declared
\* parameter from the caller's current operand stack, most recently pushed first; a
\* value of another type than the parameter it is bound to traps with a type mismatch
\* naming both types, a stack that runs out traps with stack underflow, and otherwise
\* the callee's locals are the bound values then one zero per declared local.
C6_ParameterBinding ==
    LocalInvoke =>
        LET params == LastFunc.typ.params
        IN  IF Unmatched(CallerValues, params) = {}
            THEN /\ last.log # <<>>
                 /\ last.log[1] = Event("enter", last.func, BoundLocals(CallerValues, LastFunc))
                 /\ Len(last.log[1].vals) = Len(params) + Len(LastFunc.locals)
                 /\ stack[Len(last.pre)].values =
                        SubSeq(CallerValues, 1, Len(CallerValues) - Len(params))
            ELSE /\ last.kind = "trap"
                 /\ last.trap.message = UnmatchedMessage(CallerValues, params)
                 /\ last.log = <<>>

\* C6's case: two parameters and declared locals bound from two values of the caller.
C6_Witness ==
    /\ LocalInvoke /\ last.kind = "ok"
    /\ Len(LastFunc.typ.params) = 2 /\ LastFunc.locals # <<>>
    /\ Typ(CallerValues[1]) # Typ(CallerValues[2])

\* C7: invoking an External function pops one value per declared parameter off the
\* caller's current operand stack, most recent first, checks each against the declared
\* type, and hands the host callable the popped values, argument i for parameter i; if
\* a pop underflows or a check fails the call traps and the callable is not invoked.
C7_ExternalArguments ==
    ExternalInvoke =>
        LET params == LastFunc.typ.params
        IN  IF Unmatched(CallerValues, params) = {}
            THEN /\ last.log = <<Event("host", last.func, RecentFirst(CallerValues, Len(params)))>>
                 /\ \A i \in 1..Len(params) : Typ(last.log[1].vals[i]) = params[i]
                 /\ stack[Len(last.pre)].values =
                        SubSeq(CallerValues, 1, Len(CallerValues) - Len(params))
            ELSE /\ last.kind = "trap"
                 /\ last.trap.message = UnmatchedMessage(CallerValues, params)
                 /\ last.log = <<>>

\* C7's case: a host callable of two parameters was handed two values.
C7_Witness ==
    /\ ExternalInvoke /\ last.kind = "ok"
    /\ Len(LastFunc.typ.params) = 2
    /\ last.log # <<>> /\ last.log[1].ev = "host" /\ Len(last.log[1].vals) = 2

\* A call whose argument expressions all ran: the operand stack of the intermediate
\* frame when invoke starts, and the value each argument expression pushes.
ArgsRan == last.op = "call" /\ last.log # <<>> /\ last.log[1].ev = "args"
ArgValues == last.log[1].vals
ArgValue(i) == last.code[i][1].val

\* C8 as stated: when invoke starts, the first-declared argument is the deepest of
\* the argument values on the intermediate frame and the last-declared is on top.
C8_FirstArgumentDeepest ==
    ArgsRan =>
        /\ Len(ArgValues) = Len(last.code)
        /\ \A i \in 1..Len(last.code) : ArgValues[i] = ArgValue(i)

\* C8 amended: Thread::call evaluates the argument expressions in reverse declaration
\* order, so when invoke starts the first-declared argument is on top of the
\* intermediate frame's operand stack and the last-declared argument is the deepest.
C8_FirstArgumentOnTop ==
    ArgsRan =>
        /\ Len(ArgValues) = Len(last.code)
        /\ \A i \in 1..Len(last.code) : Recent(ArgValues, i) = ArgValue(i)

\* C8's case: a call with three arguments, the first and the last of different values.
C8_Witness ==
    /\ ArgsRan /\ Len(last.code) = 3
    /\ ArgValue(1) # ArgValue(3)

\* C9: Thread::eval returns Ok(v) only if the expression left exactly the value v;
\* if it left no value eval returns a stack-underflow trap, if it left two or more
\* eval returns a 'stack not empty' trap.
C9_EvalWantsOneValue ==
    last.op = "eval" =>
        /\ last.kind = "ok" => (ExprRan /\ ExprLeft = last.vals /\ Len(last.vals) = 1)
        /\ (ExprRan /\ ExprLeft = <<>>) =>
               (last.kind = "trap" /\ last.trap.message = StackUnderflow)
        /\ (ExprRan /\ Len(ExprLeft) >= 2) =>
               (last.kind = "trap" /\ last.trap.message = StackNotEmpty)

\* The locations of the frames of a stack, the innermost first.
InnermostFirst(s) == [i \in 1..Len(s) |-> StackFrame(s[Len(s) - i + 1].frame.module,
                                                     s[Len(s) - i + 1].frame.func)]

\* An invoke of a function A whose body is one call of a function B.
ACallsB == last.op = "invoke" /\ LastFunc.imp = "local" /\ LastFunc.typ.params = <<>>
           /\ Len(LastFunc.body) = 1 /\ LastFunc.body[1].op = "call"
CalleeB == LastFunc.body[1].func

Instantiated == outcome.op = "instantiate"
Synthesized == outcome.op = "synthesize"
Given == outcome.input
Before == outcome.pre

\* The events of the call that ran last, by kind.
Events(kinds) == {i \in 1..Len(outcome.log) : outcome.log[i].ev \in kinds}

\* The module instance an import names: the first of that name registered before
\* the call; the exports of that name it has.
Named(name) == {i \in 1..Len(Before.modules) : Before.modules[i].name = name}
FirstNamed(name) == CHOOSE i \in Named(name) : \A j \in Named(name) : i <= j
ExportsNamed(name, item) ==
    {k \in 1..Len(Before.modules[FirstNamed(name)].exports) :
        Before.modules[FirstNamed(name)].exports[k].name = item}
FirstExport(name, item) ==
    Before.modules[FirstNamed(name)].exports[
        CHOOSE k \in ExportsNamed(name, item) : \A j \in ExportsNamed(name, item) : k <= j]

\* Import i of the module names a module that is not registered, or an export
\* the module found does not have.
NoModule(i) == Named(Given.imports[i].module) = {}
NoExport(i) == ~NoModule(i) /\ ExportsNamed(Given.imports[i].module, Given.imports[i].name) = {}
Unresolved == {i \in 1..Len(Given.imports) : NoModule(i) \/ NoExport(i)}
FirstUnresolved == CHOOSE i \in Unresolved : \A j \in Unresolved : i <= j

\* C11: when instantiate is given a module with an import of a module that is not
\* registered, or of an export the module found does not have, it fails with
\* ModuleNotFound carrying the module name, or ExportNotFound carrying the module
\* and item name, and the module, function and memory arenas are as before the call.
C11_FailedImportCreatesNothing ==
    (Instantiated /\ Unresolved # {}) =>
        /\ outcome.kind = "err"
        /\ outcome.error =
              IF NoModule(FirstUnresolved)
              THEN ModuleNotFound(Given.imports[FirstUnresolved].module)
              ELSE ExportNotFound(Given.imports[FirstUnresolved].module,
                                  Given.imports[FirstUnresolved].name)
        /\ theHost = Before

\* A module with functions and a memory export of its own fails on its second
\* import, the first having resolved against a Host that holds instances.
C11_Witness ==
    /\ Instantiated /\ Unresolved # {} /\ FirstUnresolved = 2
    /\ Given.funcs # <<>> /\ Given.exports # <<>>
    /\ Before.funcs # <<>> /\ Before.mems # <<>>
    /\ outcome.error.kind = "ModuleNotFound"

\* The offset and the end of the segment of a data event.
SegOffset(e) == e.seg.expr[1].val.val
SegEnd(e) == SegOffset(e) + Len(e.seg.init)

\* C12: a data segment whose end (offset + payload length) exceeds the length of
\* its target memory makes instantiate fail with InvalidModule, and the memory is
\* left as the segment found it.
C12_SegmentPastEndFails ==
    Instantiated =>
        \A i \in Events({"data", "rejected"}) :
            SegEnd(outcome.log[i]) > Len(outcome.log[i].before) =>
                /\ outcome.kind = "err"
                /\ outcome.error = InvalidModule
                /\ outcome.log[i].after = outcome.log[i].before
                /\ theHost.mems[outcome.log[i].addr + 1] = outcome.log[i].before

\* Payload [1, 2, 3] at offset 0 of a memory of length 2.
C12_Witness ==
    /\ Instantiated
    /\ \E i \in Events({"data", "rejected"}) :
          /\ outcome.log[i].seg.init = <<1, 2, 3>>
          /\ SegOffset(outcome.log[i]) = 0
          /\ Len(outcome.log[i].before) = 2
    /\ outcome.error = InvalidModule

\* C13: a data segment with a constant offset whose range [offset, offset + len)
\* lies within its target memory is not failed on, and afterwards the memory
\* holds the payload at that range and its former bytes elsewhere.
C13_SegmentInsideIsCopied ==
    Instantiated =>
        \A i \in Events({"data", "rejected"}) :
            SegEnd(outcome.log[i]) <= Len(outcome.log[i].before) =>
                /\ outcome.log[i].ev = "data"
                /\ Len(outcome.log[i].after) = Len(outcome.log[i].before)
                /\ \A j \in 1..Len(outcome.log[i].before) :
                      outcome.log[i].after[j] =
                          IF j > SegOffset(outcome.log[i]) /\ j <= SegEnd(outcome.log[i])
                          THEN outcome.log[i].seg.init[j - SegOffset(outcome.log[i])]
                          ELSE outcome.log[i].before[j]

\* The module instance at the handle the call returned, and the referent export
\* k of the module declares within it.
Returned == outcome.kind = "ok"
Instance == theHost.modules[outcome.addr + 1]
Declared(k) == Given.exports[k].description
Entries(name) == {n \in 1..Len(Instance.exports) : Instance.exports[n].name = name}
Created(addr) == addr >= Len(Before.mems) /\ addr < Len(theHost.mems)

\* C14 as stated: whenever instantiate returns Ok(handle), every export the module
\* declares, of whatever kind, is found by its name in the export table of the
\* instance at that handle.
C14_EveryExportResolves ==
    (Instantiated /\ Returned) =>
        \A k \in 1..Len(Given.exports) : Entries(Given.exports[k].name) # {}

\* C14 amended: whenever instantiate returns Ok(handle), every function export and
\* every memory export the module declares is found by its name in the export
\* table of the instance at that handle, bound to the function handle at the
\* declared index or to a memory of the declared size; exports of other kinds
\* have no entry.
C14_FunctionAndMemoryExportsResolve ==
    (Instantiated /\ Returned) =>
        /\ \A k \in 1..Len(Given.exports) :
              /\ Declared(k).kind = "Function" =>
                    \E n \in Entries(Given.exports[k].name) :
                        Instance.exports[n].value =
                            ExternVal_Func(Instance.funcs[Declared(k).idx + 1])
              /\ Declared(k).kind = "Memory" =>
                    \E n \in Entries(Given.exports[k].name) :
                        /\ Instance.exports[n].value.kind = "mem"
                        /\ Created(Instance.exports[n].value.addr)
                        /\ Len(theHost.mems[Instance.exports[n].value.addr + 1]) = Declared(k).min
              /\ Declared(k).kind \notin {"Function", "Memory"} =>
                    Entries(Given.exports[k].name) = {}
        /\ Len(Instance.exports) =
              Cardinality({k \in 1..Len(Given.exports) :
                              Declared(k).kind \in {"Function", "Memory"}})

\* A module that declares a function export, memory exports and a table export
\* is instantiated.
C14_Witness ==
    /\ Instantiated /\ Returned
    /\ \E k \in 1..Len(Given.exports) : Declared(k).kind = "Function"
    /\ \E k \in 1..Len(Given.exports) : Declared(k).kind = "Memory"
    /\ \E k \in 1..Len(Given.exports) : Declared(k).kind = "Table"

\* The handles the call issued in an arena, in the order it issued them.
Issued(kind) == SelectSeq(outcome.log, LAMBDA e : e.ev = kind)
Consecutive(kind, from) ==
    \A i \in 1..Len(Issued(kind)) :
        /\ Issued(kind)[i].addr = from + i - 1
        /\ Issued(kind)[i].at = from + i - 1

\* C15: a call of synthesize or instantiate, successful or not, leaves every
\* arena at least as long as it was, with the instances it held at their handles;
\* each handle the call issues is the length of the arena at the push of its
\* entry, so no handle is issued twice; a returned module handle names the module
\* instance the call pushed.
C15_ArenasOnlyGrow ==
    /\ Len(theHost.modules) >= Len(Before.modules)
    /\ Len(theHost.funcs) >= Len(Before.funcs)
    /\ Len(theHost.mems) >= Len(Before.mems)
    /\ SubSeq(theHost.modules, 1, Len(Before.modules)) = Before.modules
    /\ SubSeq(theHost.funcs, 1, Len(Before.funcs)) = Before.funcs
    /\ \A a \in 1..Len(Before.mems) : Len(theHost.mems[a]) = Len(Before.mems[a])
    /\ Consecutive("module", Len(Before.modules))
    /\ Consecutive("func", Len(Before.funcs))
    /\ Consecutive("mem", Len(Before.mems))
    /\ Len(theHost.modules) = Len(Before.modules) + Len(Issued("module"))
    /\ Len(theHost.funcs) = Len(Before.funcs) + Len(Issued("func"))
    /\ Len(theHost.mems) = Len(Before.mems) + Len(Issued("mem"))
    /\ (outcome.op # "new" /\ Returned) =>
          /\ Len(Issued("module")) = 1
          /\ outcome.addr = Issued("module")[1].addr

\* A failing instantiate has pushed functions on a Host that holds modules,
\* functions and memories of earlier calls.
C15_Witness ==
    /\ Instantiated /\ outcome.kind = "err"
    /\ Len(Issued("func")) > 0
    /\ Before.modules # <<>> /\ Before.funcs # <<>> /\ Before.mems # <<>>

\* What the imports of the module resolve to, in declaration order.
ImportValues ==
    [i \in 1..Len(Given.imports) |->
        FirstExport(Given.imports[i].module, Given.imports[i].name).value]
Handles(values, kind) ==
    [i \in 1..Len(SelectSeq(values, LAMBDA v : v.kind = kind)) |->
        SelectSeq(values, LAMBDA v : v.kind = kind)[i].addr]
LocalHandles == [i \in 1..Len(Given.funcs) |-> Len(Before.funcs) + i - 1]

\* C16: after a successful instantiate the function table of the new instance is
\* the function handles of the imports in declaration order, then the handles of
\* the local functions in declaration order, the i-th being the position in the
\* function arena of a Local function of the i-th type index, the i-th code body
\* and the new instance; its memory table is the memory handles of the imports in
\* declaration order.
C16_TablesInDeclarationOrder ==
    (Instantiated /\ Returned) =>
        /\ Instance.funcs = Handles(ImportValues, "func") \o LocalHandles
        /\ Instance.mems = Handles(ImportValues, "mem")
        /\ \A i \in 1..Len(Given.funcs) :
              theHost.funcs[LocalHandles[i] + 1] =
                  [imp |-> "local", typ |-> Given.types[Given.funcs[i] + 1],
                   module |-> Some(outcome.addr), body |-> Given.code[i]]

\* A module with two local functions of one type, three function imports and two
\* memory imports, functions and memories mixed, is instantiated.
C16_Witness ==
    /\ Instantiated /\ Returned
    /\ Len(Given.funcs) = 2
    /\ Len(Handles(ImportValues, "func")) = 3
    /\ Len(Handles(ImportValues, "mem")) = 2
    /\ ImportValues[1].kind = "func" /\ ImportValues[2].kind = "mem"

\* The exports of the module that get an entry, in declaration order.
Bound == SelectSeq(Given.exports, LAMBDA e : e.description.kind \in {"Function", "Memory"})
MemoryExports == {n \in 1..Len(Bound) : Bound[n].description.kind = "Memory"}

\* C17: a function export at index k is bound to the k-th handle of the function
\* table of the instance, imports included; each memory export pushes one new
\* memory instance of the declared size and is bound to its handle; an imported
\* memory is the exporter's handle and no memory instance is made for it.
C17_ExportBinding ==
    (Instantiated /\ Returned) =>
        /\ Len(Instance.exports) = Len(Bound)
        /\ \A n \in 1..Len(Bound) :
              /\ Instance.exports[n].name = Bound[n].name
              /\ Bound[n].description.kind = "Function" =>
                    Instance.exports[n].value =
                        ExternVal_Func(Instance.funcs[Bound[n].description.idx + 1])
              /\ Bound[n].description.kind = "Memory" =>
                    /\ Instance.exports[n].value.kind = "mem"
                    /\ Created(Instance.exports[n].value.addr)
                    /\ theHost.mems[Instance.exports[n].value.addr + 1] =
                          [j \in 1..Bound[n].description.min |-> 0]
        /\ \A n, m \in MemoryExports :
              n # m => Instance.exports[n].value.addr # Instance.exports[m].value.addr
        /\ Len(theHost.mems) = Len(Before.mems) + Cardinality(MemoryExports)
        /\ \A j \in 1..Len(Instance.mems) : Instance.mems[j] < Len(Before.mems)
        /\ Instance.mems = Handles(ImportValues, "mem")

\* A module that imports memories and functions exports an imported function, a
\* function of its own and a memory.
C17_Witness ==
    /\ Instantiated /\ Returned
    /\ Instance.mems # <<>> /\ MemoryExports # {}
    /\ \E n \in 1..Len(Bound) :
          /\ Bound[n].description.kind = "Function"
          /\ Bound[n].description.idx < Len(Handles(ImportValues, "func"))
    /\ \E n \in 1..Len(Bound) :
          /\ Bound[n].description.kind = "Function"
          /\ Bound[n].description.idx >= Len(Handles(ImportValues, "func"))

\* C18: synthesize pushes one External function instance per callable of the
\* builder, in builder order, and one module instance, pushes no memory instance,
\* returns the handle of the new module instance, and that instance exports each
\* declared name bound to the function of the callable declared for it; two
\* exports may be bound to one handle.
C18_Synthesize ==
    Synthesized =>
        /\ Returned
        /\ Len(theHost.funcs) = Len(Before.funcs) + Len(Given.funcs)
        /\ \A i \in 1..Len(Given.funcs) :
              /\ theHost.funcs[Len(Before.funcs) + i].imp = "external"
              /\ theHost.funcs[Len(Before.funcs) + i].typ = Given.funcs[i].typ
              /\ theHost.funcs[Len(Before.funcs) + i].body = Given.funcs[i].name
        /\ theHost.mems = Before.mems
        /\ Len(theHost.modules) = Len(Before.modules) + 1
        /\ outcome.addr = Len(Before.modules)
        /\ Instance.name = Given.name
        /\ Instance.mems = <<>>
        /\ Instance.funcs = [i \in 1..Len(Given.funcs) |-> Len(Before.funcs) + i - 1]
        /\ Len(Instance.exports) = Len(Given.exports)
        /\ \A n \in 1..Len(Given.exports) :
              /\ Instance.exports[n].name = Given.exports[n].name
              /\ Instance.exports[n].value =
                    ExternVal_Func(Len(Before.funcs) + Given.exports[n].description.idx)

\* A builder with two callables, the first exported under two names, is
\* synthesized on a Host that holds functions and memories.
C18_Witness ==
    /\ Synthesized /\ Returned
    /\ Len(Given.funcs) = 2
    /\ Before.funcs # <<>> /\ Before.mems # <<>>
    /\ \E n, m \in 1..Len(Instance.exports) :
          n # m /\ Instance.exports[n].value = Instance.exports[m].value

\* C19: when instantiate fails in the data segments (InvalidModule), the Local
\* functions the call pushed on the function arena stay there and no module
\* instance is registered.
C19_NotTransactional ==
    (Instantiated /\ outcome.kind = "err" /\ outcome.error = InvalidModule) =>
        /\ theHost.modules = Before.modules
        /\ Len(theHost.funcs) = Len(Before.funcs) + Len(Given.funcs)
        /\ SubSeq(theHost.funcs, 1, Len(Before.funcs)) = Before.funcs
        /\ \A i \in 1..Len(Given.funcs) :
              theHost.funcs[Len(Before.funcs) + i] =
                  [imp |-> "local", typ |-> Given.types[Given.funcs[i] + 1],
                   module |-> Some(Len(Before.modules)), body |-> Given.code[i]]

\* An instantiate of a module with a function fails on its second data segment.
C19_Witness ==
    /\ Instantiated /\ outcome.kind = "err" /\ outcome.error = InvalidModule
    /\ Given.funcs # <<>>
    /\ Len(Given.data) = 2 /\ Events({"data"}) # {} /\ Events({"rejected"}) # {}

Operands(s) == UNION {{s[i].values[j] : j \in 1..Len(s[i].values)} : i \in 1..Len(s)}

\* C21: no operand stack of any frame holds a Nil: a push of Nil leaves the
\* stack of frames as it was, and a pop that returns a value returns a value
\* that is not Nil.
C21_NoNilOperand ==
    /\ Nil \notin Operands(stack)
    /\ (last.op = "push" /\ last.code = <<Nil>>) => stack = last.pre
    /\ (last.op = "pop" /\ last.kind = "ok") => (last.vals # None /\ last.vals[1] # Nil)

\* A Nil has been pushed on a frame that holds an operand value.
C21_Witness ==
    /\ last.op = "push" /\ last.code = <<Nil>> /\ last.kind = "ok"
    /\ stack # <<>> /\ Stack_current(stack).values # <<>>

\* ------------------------------------------------------------------ the Reader: what a call did

\* The first n bytes of the stream the call found.
Found(n) == SubSeq(got.pre, 1, n)

\* The bytes the call took from the stream.
Taken == Len(got.pre) - Len(source)

\* The magic "\0asm" and the version 1 of the binary format, as bytes.
MagicBytes == <<0, 97, 115, 109>>
SupportedVersion == <<1, 0, 0, 0>>

\* The number four bytes stand for, the first byte being the least significant.
RECURSIVE Number(_)
Number(bytes) == IF bytes = <<>> THEN 0 ELSE bytes[1] + 256 * Number(Tail(bytes))

HeaderRead == got.op = "read_module_header"

\* ------------------------------------------------------------------ C22

SectionHeaderRead == got.op = "read_section_header"
SectionParsed == got.op = "read_section"

\* The stream holds a whole length after the id byte: a byte below 128.
LengthComplete(s) == \E k \in 2..Len(s) : s[k] < 128

\* The place of the last byte of the length.
LengthEnd(s) == CHOOSE k \in 2..Len(s) : s[k] < 128 /\ \A i \in 2..(k - 1) : s[i] >= 128

\* The number that base-128 digits stand for, the first being the least significant.
RECURSIVE Base128(_)
Base128(bytes) == IF bytes = <<>> THEN 0 ELSE (bytes[1] % 128) + 128 * Base128(Tail(bytes))

\* The payload length a stream declares for its first section.
DeclaredSize(s) == Base128(SubSeq(s, 2, LengthEnd(s)))

\* The stream ends after the id byte, inside the length or inside the payload.
EndsInLength(s) == s # <<>> /\ ~LengthComplete(s)
EndsInPayload(s) == LengthComplete(s) /\ Len(s) - LengthEnd(s) < DeclaredSize(s)

\* C23 as stated: read_section_header returns Ok(None) exactly when the stream
\* has ended before an id byte and an IO failure when the stream ends inside
\* the length or the payload; read_section takes no byte beyond the payload
\* length of the header.
C23_TruncationFailsInHeader ==
    /\ SectionHeaderRead =>
          /\ got.kind = "none" <=> got.pre = <<>>
          /\ (EndsInLength(got.pre) \/ EndsInPayload(got.pre)) => got.kind = "io"
    /\ SectionParsed => Taken <= got.given.size

\* C23: read_section_header returns Ok(None) exactly when the stream has ended
\* before an id byte, an IO failure exactly when the stream ends after the id
\* byte inside the length, and otherwise the header with the id and the
\* declared length, having read no byte of the payload, also when the stream
\* ends inside the payload; read_section takes bytes from the front of the
\* stream and none beyond the payload length of the header.
C23_SectionFraming ==
    /\ SectionHeaderRead =>
          /\ got.kind = "none" <=> got.pre = <<>>
          /\ got.kind = "io" <=> EndsInLength(got.pre)
          /\ LengthComplete(got.pre) =>
                /\ got.kind = "ok"
                /\ got.header = [id |-> got.pre[1], size |-> DeclaredSize(got.pre)]
                /\ Taken = LengthEnd(got.pre)
    /\ SectionParsed =>
          /\ Taken <= got.given.size
          /\ source = SubSeq(got.pre, Taken + 1, Len(got.pre))

\* A function section that announces more items than its payload holds has
\* been read from a stream that holds more bytes: the parser got the whole
\* payload and not the bytes after it.
C23_Witness ==
    /\ SectionParsed /\ got.kind = "io"
    /\ got.given.size > 0 /\ Taken = got.given.size
    /\ source # <<>>

\* ------------------------------------------------------------------ C24

ValueCoerced == coerced.repr # "none"

\* The category a native type asks for.
Requested ==
    IF coerced.repr \in {"u32", "i32"} THEN "i32"
    ELSE IF coerced.repr \in {"u64", "i64"} THEN "i64"
    ELSE coerced.repr

\* C24: from_value returns the payload when the tag of the value is the
\* requested category, fails with TypeMismatch {expected: the requested type,
\* actual: the type of the value} when the value has another tag that is not
\* Nil, and fails with StackUnderflow when the value is Nil.
C24_FromValue ==
    ValueCoerced =>
        /\ coerced.value.typ = Requested =>
              (coerced.ok /\ coerced.val = coerced.value.val)
        /\ coerced.value.typ \notin {Requested, "nil"} =>
              /\ ~coerced.ok
              /\ coerced.cause =
                    [cause |-> "TypeMismatch", expected |-> Requested,
                     actual |-> coerced.value.typ]
        /\ coerced.value.typ = "nil" =>
              (~coerced.ok /\ coerced.cause.cause = "StackUnderflow")

\* A Nil has been coerced to a native type.
C24_Witness ==
    /\ ValueCoerced /\ coerced.value = Nil
    /\ ~coerced.ok

\* ------------------------------------------------------------------ C25

\* The offset expression is not one instruction that is an integer constant.
NotOneConstant(expr) ==
    \/ Len(expr) # 1
    \/ expr[1].op # "const"
    \/ expr[1].val.typ \notin {"i32", "i64"}

\* Every function of the module given has a type the module declares.
TypesDeclared == \A i \in 1..Len(Given.funcs) : Given.funcs[i] < Len(Given.types)

\* The call got to data segment k: the imports resolved, the functions were
\* instantiated and the k - 1 segments before it were copied.
Reaches(k) ==
    /\ Unresolved = {}
    /\ TypesDeclared
    /\ Cardinality(Events({"data"})) >= k - 1

\* The data events of the call that wrote to the memory at handle a.
WritesTo(a) == {i \in Events({"data"}) : outcome.log[i].addr = a}

\* The memory at handle a as the last data event that wrote to it left it, or
\* as the call found it.
LastWritten(a) ==
    IF WritesTo(a) = {} THEN Before.mems[a + 1]
    ELSE outcome.log[CHOOSE i \in WritesTo(a) : \A j \in WritesTo(a) : j <= i].after

\* C25: a data segment whose offset expression is not one integer constant
\* (no instruction, more than one, an instruction that is no constant) makes
\* instantiate fail with InvalidModule, and no memory is written for it: the
\* memories are as the segments before it left them.
C25_OffsetMustBeOneConstant ==
    Instantiated =>
        \A k \in 1..Len(Given.data) :
            (NotOneConstant(Given.data[k].expr) /\ Reaches(k)) =>
                /\ outcome.kind = "err"
                /\ outcome.error = InvalidModule
                /\ Cardinality(Events({"data"})) = k - 1
                /\ Len(theHost.mems) = Len(Before.mems)
                /\ \A a \in 1..Len(theHost.mems) : theHost.mems[a] = LastWritten(a - 1)

\* The second segment of a module has a call for its offset, the first was
\* copied.
C25_Witness ==
    /\ Instantiated /\ Len(Given.data) = 2
    /\ Given.data[2].expr = <<Call(0)>>
    /\ Reaches(2)
    /\ theHost.mems # Before.mems
    /\ outcome.error = InvalidModule

\* ------------------------------------------------------------------ C26

\* The handles of the Local function instances of the arena.
LocalFuncs == {a \in 0..(Len(theHost.funcs) - 1) : theHost.funcs[a + 1].imp = "local"}

\* The module handle the Local function at handle a carries.
Owner(a) == theHost.funcs[a + 1].module[1]

\* The function instances the call that ran last pushed.
Pushed == Len(Before.funcs)..(Len(theHost.funcs) - 1)

\* C26 as stated: after any calls of instantiate and synthesize, failed ones
\* too, the owning-module handle of every Local function instance refers to a
\* registered module instance whose function table holds the function's handle.
C26_EveryLocalFunctionOwned ==
    \A a \in LocalFuncs :
        /\ Owner(a) < Len(theHost.modules)
        /\ \E i \in 1..Len(theHost.modules[Owner(a) + 1].funcs) :
              theHost.modules[Owner(a) + 1].funcs[i] = a

\* C26: every Local function instance an instantiate call pushed carries the
\* module handle taken at the start of the call; when the call returns a
\* handle, it is that handle, it refers to the module instance the call
\* registered, and that instance's function table holds the function's
\* handle; when the call fails or panics after it pushed functions, the handle
\* they carry refers to no registered module instance.
C26_OwnerIsTheCallsHandle ==
    Instantiated =>
        /\ \A a \in Pushed :
              /\ a \in LocalFuncs
              /\ Owner(a) = Len(Before.modules)
        /\ Returned =>
              /\ Len(Given.funcs) = Cardinality(Pushed)
              /\ \A a \in Pushed :
                    /\ Owner(a) = outcome.addr
                    /\ Owner(a) < Len(theHost.modules)
                    /\ \E i \in 1..Len(Instance.funcs) : Instance.funcs[i] = a
        /\ ~Returned =>
              \A a \in Pushed : Owner(a) >= Len(theHost.modules)

\* An instantiate has returned a handle for a module with a function, on a
\* Host that holds a Local function of a call that failed.
C26_Witness ==
    /\ Instantiated /\ Returned /\ Given.funcs # <<>>
    /\ \E a \in LocalFuncs :
          a < Len(Before.funcs) /\ a \notin UNION {{m.funcs[i] : i \in 1..Len(m.funcs)} :
                                        m \in {theHost.modules[j] : j \in 1..Len(theHost.modules)}}

\* ------------------------------------------------------------------ C27

\* The call failed with InvalidModule on a data segment that is not the first.
LaterSegmentFailed ==
    /\ Instantiated /\ outcome.kind = "err" /\ outcome.error = InvalidModule
    /\ Unresolved = {}
    /\ Events({"data"}) # {}

\* The memory handle segment k of the module given is for.
Target(k) == Handles(ImportValues, "mem")[Given.data[k].index + 1]

\* The memories after the first n segments of the module given were copied,
\* each at its constant offset into the memory it is for.
RECURSIVE Replayed(_)
Replayed(n) ==
    IF n = 0 THEN Before.mems
    ELSE [Replayed(n - 1) EXCEPT ![Target(n) + 1] =
            [j \in 1..Len(@) |->
                IF j > Given.data[n].expr[1].val.val
                      /\ j <= Given.data[n].expr[1].val.val + Len(Given.data[n].init)
                THEN Given.data[n].init[j - Given.data[n].expr[1].val.val]
                ELSE @[j]]]

\* C27 as stated: when instantiate fails with InvalidModule on the k-th data
\* segment, the memories are as before the call.
C27_FailedSegmentsLeaveNoWrite ==
    LaterSegmentFailed => theHost.mems = Before.mems

\* C27: when instantiate fails with InvalidModule on the k-th data segment, the
\* writes of the segments 1..k-1 stay: the memories are as those k - 1 copies
\* left them, and the k-th segment has written nothing.
C27_EarlierSegmentsStayWritten ==
    LaterSegmentFailed => theHost.mems = Replayed(Cardinality(Events({"data"})))

\* The second segment failed after the first wrote a byte the memory did not
\* hold.
C27_Witness ==
    /\ LaterSegmentFailed
    /\ Len(Given.data) = 2
    /\ theHost.mems # Before.mems

\* ------------------------------------------------------------------ C28

FindCalled == outcome.op = "find_module"

\* A module registered after the first of its name exports the item import i
\* names, bound to another handle than the first module binds it to, or the
\* first not exporting it at all.
ShadowedExport(i) ==
    \E j \in Named(Given.imports[i].module) :
        /\ j # FirstNamed(Given.imports[i].module)
        /\ \E k \in 1..Len(Before.modules[j].exports) :
              /\ Before.modules[j].exports[k].name = Given.imports[i].name
              /\ (NoExport(i) \/ Before.modules[j].exports[k].value # ImportValues[i])

\* C28: find_module returns the module instance of a name that was registered
\* first, and None when there is none; the imports of a module resolve against
\* that first instance, whatever later instances of the name export; the
\* module being instantiated is not among the instances its imports are
\* looked up in.
C28_FirstOfAName ==
    /\ FindCalled =>
          /\ theHost = Before
          /\ Named(Given.name) = {} => outcome.kind = "none"
          /\ Named(Given.name) # {} =>
                (outcome.kind = "some" /\ outcome.addr = FirstNamed(Given.name) - 1)
    /\ (Instantiated /\ Unresolved = {}) =>
          /\ outcome.mems = Handles(ImportValues, "mem")
          /\ Len(outcome.funcs) >= Len(Handles(ImportValues, "func"))
          /\ SubSeq(outcome.funcs, 1, Len(Handles(ImportValues, "func"))) =
                Handles(ImportValues, "func")
    /\ (Instantiated /\ Unresolved # {}) =>
          /\ outcome.kind = "err"
          /\ NoExport(FirstUnresolved) =>
                outcome.error = ExportNotFound(Given.imports[FirstUnresolved].module,
                                               Given.imports[FirstUnresolved].name)
          /\ NoModule(FirstUnresolved) =>
                outcome.error = ModuleNotFound(Given.imports[FirstUnresolved].module)
    /\ (Instantiated /\ Named(Given.name) = {}) =>
          \A i \in 1..Len(Given.imports) :
              Given.imports[i].module = Given.name =>
                  (outcome.kind = "err" /\ Len(theHost.modules) = Len(Before.modules))

\* The imports of a module have resolved on a Host with two modules of the
\* name, the second binding an imported item to another handle.
C28_Witness ==
    /\ Instantiated /\ Unresolved = {} /\ Returned
    /\ \E i \in 1..Len(Given.imports) : ShadowedExport(i)

\* ------------------------------------------------------------------ C29

\* Segment k of the module given has one i32 constant for its offset and an
\* index with no imported memory at that position.
NoMemoryAt(k) ==
    /\ Len(Given.data[k].expr) = 1
    /\ Given.data[k].expr[1].op = "const"
    /\ Given.data[k].expr[1].val.typ = "i32"
    /\ Given.data[k].index >= Len(Handles(ImportValues, "mem"))

\* The memories of the memory exports are made after the data segments and
\* are not in the memory table of the instance: every data segment reads or
\* writes the imported memory at the position of its index, and when
\* instantiate returns every byte of an exported memory is 0.
ExportedMemoryUntouched ==
    /\ (Instantiated /\ Unresolved = {}) =>
          \A i \in Events({"data", "rejected"}) :
              /\ outcome.log[i].seg.index < Len(Handles(ImportValues, "mem"))
              /\ outcome.log[i].addr =
                    Handles(ImportValues, "mem")[outcome.log[i].seg.index + 1]
              /\ outcome.log[i].addr < Len(Before.mems)
              /\ \A j \in Events({"mem"}) : i < j
    /\ (Instantiated /\ Returned) =>
          /\ Instance.mems = Handles(ImportValues, "mem")
          /\ \A n \in MemoryExports :
                /\ \A j \in 1..Len(Instance.mems) :
                      Instance.mems[j] # Instance.exports[n].value.addr
                /\ \A j \in 1..Len(theHost.mems[Instance.exports[n].value.addr + 1]) :
                      theHost.mems[Instance.exports[n].value.addr + 1][j] = 0

\* C29 as stated: the memory of a memory export is made after the data
\* segments and is not in the memory table of the instance, so that segments
\* are for imported memories only and an exported memory is in its initial
\* state when instantiate returns; a segment whose index has no imported
\* memory at that position makes instantiate fail with InvalidModule.
C29_SegmentsOnlyForImportedMemories ==
    /\ ExportedMemoryUntouched
    /\ Instantiated =>
          \A k \in 1..Len(Given.data) :
              (Reaches(k) /\ NoMemoryAt(k)) =>
                  (outcome.kind = "err" /\ outcome.error = InvalidModule)

\* The segment index 3 of a module with one imported memory: the call panics.
C29_Panics ==
    /\ Instantiated /\ Len(Given.data) = 1
    /\ Reaches(1) /\ NoMemoryAt(1)
    /\ outcome.kind = "panic"

====
